---- MODULE Spec2Model ----
(***************************************************************************)
(* IPAM-Firewall-SSI: the sync worker (ssi/ssi.worker.ts), the FortiOS     *)
(* reconciler (ssi/services/fortios.service.ts), the NSX reconciler        *)
(* (ssi/services/nsx.service.ts) and the helpers of ssi/ssi.utils.ts.      *)
(*                                                                         *)
(* JavaScript runs every handler to completion: a state of this model is   *)
(* a state in which every work() invocation and every deployAddresses /    *)
(* deployAddresses6 call is parked at an await of a collaborator call.     *)
(* An action is the resolution (or rejection) of one such call followed by *)
(* all the synchronous code that runs until the next await.                *)
(***************************************************************************)
EXTENDS Integers, Sequences, FiniteSets, TLC

\* Number of work() invocations a behaviour makes (main.ts calls work() once
\* at start and then again on every interval tick).
MaxCalls == 2

Calls == 1..MaxCalls
Families == {4, 6}
Priorities == {"low", "medium", "high"}
FwHosts == {"fw1", "fw2"}
Vdoms == {"root", "dmz"}
NsxHosts == {"nsx1", "nsx2"}

\* An optional value v is <<v>>, undefined/null is <<>>.
None == <<>>
Some(v) == <<v>>
IsSome(o) == o # <<>>

----------------------------------------------------------------------------
(* Sequence helpers (Array.prototype.map / filter / findIndex / Set).       *)

Range(s) == {s[k] : k \in DOMAIN s}

RECURSIVE MapName(_)
MapName(s) == IF s = <<>> THEN <<>> ELSE <<Head(s).name>> \o MapName(Tail(s))

\* index of the first element of s with the given name, 0 when there is none
RECURSIVE FindIndexFrom(_, _, _)
FindIndexFrom(s, n, k) ==
  IF k > Len(s) THEN 0
  ELSE IF s[k].name = n THEN k ELSE FindIndexFrom(s, n, k + 1)

FindIndex(s, n) == FindIndexFrom(s, n, 1)

\* prefixes.filter((m, index, array) => index === array.findIndex(f => f.name === m.name))
RECURSIVE UniqueFrom(_, _)
UniqueFrom(s, k) ==
  IF k > Len(s) THEN <<>>
  ELSE (IF FindIndex(s, s[k].name) = k THEN <<s[k]>> ELSE <<>>) \o UniqueFrom(s, k + 1)

\* a filter that keeps every element
UniqueMembersAll(s) == s

UniqueMembers(s) == UniqueFrom(s, 1)

\* [...new Set(list)]: first occurrences, in order
RECURSIVE DedupFrom(_, _)
DedupFrom(s, k) ==
  IF k > Len(s) THEN <<>>
  ELSE (IF \E m \in 1..(k - 1) : s[m] = s[k] THEN <<>> ELSE <<s[k]>>) \o DedupFrom(s, k + 1)

Dedup(s) == DedupFrom(s, 1)

----------------------------------------------------------------------------
(* ssi.utils.ts                                                             *)

\* a mask that ignores the prefix length
ToMaskOfSlash24(len) == <<255, 255, 255, 0>>

\* ip-num: IPv4CidrRange.fromCidr(c).getPrefix().toMask().toString(), as the
\* four octets of the mask of a prefix length.
RECURSIVE Pow2(_)
Pow2(n) == IF n = 0 THEN 1 ELSE 2 * Pow2(n - 1)

MaskOctet(len, k) ==
  LET bits == IF len >= 8 * k THEN 8
              ELSE IF len <= 8 * (k - 1) THEN 0
              ELSE len - 8 * (k - 1)
  IN 256 - Pow2(8 - bits)

ToMask(len) == <<MaskOctet(len, 1), MaskOctet(len, 2), MaskOctet(len, 3), MaskOctet(len, 4)>>

\* A VLAN name and a comment are strings the code looks into: they are
\* sequences of characters, the empty string is <<>>.
UpperCase == <<"A", "B", "C", "D", "E", "F", "G", "H", "I", "J", "K", "L", "M", "N", "O", "P", "Q", "R", "S", "T", "U", "V", "W", "X", "Y", "Z">>
LowerCase == <<"a", "b", "c", "d", "e", "f", "g", "h", "i", "j", "k", "l", "m", "n", "o", "p", "q", "r", "s", "t", "u", "v", "w", "x", "y", "z">>

LowerCaseOf(c) ==
  IF \E k \in DOMAIN UpperCase : UpperCase[k] = c
  THEN LowerCase[CHOOSE k \in DOMAIN UpperCase : UpperCase[k] = c]
  ELSE c

\* String.prototype.toLowerCase: every upper-case letter is replaced by its
\* lower-case letter, every other character is kept
ToLowerCase(s) == [k \in DOMAIN s |-> LowerCaseOf(s[k])]

\* a comment that is an empty string when there is no label
CommentOrEmpty(p) ==
  IF IsSome(p.vlan) /\ p.vlan[1].name # <<>> THEN Some(ToLowerCase(p.vlan[1].name)) ELSE Some(<<>>)

\* comment: vlan && vlan.name ? vlan.name.toLowerCase() : undefined
Comment(p) ==
  IF IsSome(p.vlan) /\ p.vlan[1].name # <<>> THEN Some(ToLowerCase(p.vlan[1].name)) ELSE None

\* a projection without the family filter
RECURSIVE mapperUnfiltered(_)
mapperUnfiltered(prefixes) ==
  IF prefixes = <<>> THEN <<>>
  ELSE LET p == Head(prefixes) IN
       <<[name |-> <<"netbox_", p.prefix>>,
          comment |-> Comment(p),
          subnet |-> <<p.prefix.net, ToMask(p.prefix.len)>>,
          color |-> 0]>> \o mapperUnfiltered(Tail(prefixes))

RECURSIVE mapper(_)
mapper(prefixes) ==
  IF prefixes = <<>> THEN <<>>
  ELSE LET p == Head(prefixes) IN
       (IF p.family = 4
        THEN <<[name |-> <<"netbox_", p.prefix>>,
                comment |-> Comment(p),
                subnet |-> <<p.prefix.net, ToMask(p.prefix.len)>>,
                color |-> 0]>>
        ELSE <<>>) \o mapper(Tail(prefixes))

RECURSIVE mapper6(_)
mapper6(prefixes) ==
  IF prefixes = <<>> THEN <<>>
  ELSE LET p == Head(prefixes) IN
       (IF p.family = 6
        THEN <<[name |-> <<"netbox6_", p.display>>,
                comment |-> Comment(p),
                ip6 |-> p.prefix]>>
        ELSE <<>>) \o mapper6(Tail(prefixes))

\* a difference that removes nothing
differenceWithNothing(array, values) == array

\* lodash.differencewith(array, values, compareMembers) with
\* compareMembers = (a, b) => a.name === b.name: the elements of array, in
\* order, whose name is the name of no element of values.
RECURSIVE differenceWith(_, _)
differenceWith(array, values) ==
  IF array = <<>> THEN <<>>
  ELSE (IF FindIndex(values, Head(array).name) # 0 THEN <<>> ELSE <<Head(array)>>)
       \o differenceWith(Tail(array), values)

\* a diff that reports every existing member as removed
getAddGrpMemberChangesAllRemoved(existingGroup, newGroup) ==
  IF ~IsSome(existingGroup) \/ ~IsSome(newGroup) THEN None
  ELSE Some([added   |-> MapName(differenceWith(newGroup[1].member, existingGroup[1].member)),
             removed |-> MapName(existingGroup[1].member)])

\* a diff that reports the added names as removed and the removed as added
getAddGrpMemberChangesSwapped(existingGroup, newGroup) ==
  IF ~IsSome(existingGroup) \/ ~IsSome(newGroup) THEN None
  ELSE Some([added   |-> MapName(differenceWith(existingGroup[1].member, newGroup[1].member)),
             removed |-> MapName(differenceWith(newGroup[1].member, existingGroup[1].member))])

\* a diff that also reports the common members as added
getAddGrpMemberChangesAllAdded(existingGroup, newGroup) ==
  IF ~IsSome(existingGroup) \/ ~IsSome(newGroup) THEN None
  ELSE Some([added   |-> MapName(newGroup[1].member),
             removed |-> MapName(existingGroup[1].member)])

\* a diff that takes an undefined desired group for a group without members
getAddGrpMemberChangesLenient(existingGroup, newGroup) ==
  IF ~IsSome(existingGroup) THEN None
  ELSE LET member == IF IsSome(newGroup) THEN newGroup[1].member ELSE <<>> IN
       Some([added   |-> MapName(differenceWith(member, existingGroup[1].member)),
             removed |-> MapName(differenceWith(existingGroup[1].member, member))])

\* Groups are optional (a group record or undefined); the result is
\* undefined (None) when the function throws.
getAddGrpMemberChanges(existingGroup, newGroup) ==
  IF ~IsSome(existingGroup) \/ ~IsSome(newGroup) THEN None
  ELSE Some([added   |-> MapName(differenceWith(newGroup[1].member, existingGroup[1].member)),
             removed |-> MapName(differenceWith(existingGroup[1].member, newGroup[1].member))])

----------------------------------------------------------------------------
(* State                                                                    *)

VARIABLES
  cfg,        \* environment of the process: [devMode, testInt, nms]
  nam,        \* the directory (NAM): the integrators it holds, in order
  netbox,     \* the IPAM: integrator query -> prefix records
  fortios,    \* the firewalls: <<host, vdom, family>> -> [addresses, groups, refs]
  nsxmgr,     \* the security platforms: host -> optional group
  worker,     \* the SSIWorker fields: [running, ipam, firewall, nsx, run_counter]
  inv,        \* the work() invocations: Calls -> locals of the invocation
  live,       \* the driver handles constructed and not yet disposed
  procs,      \* the deployAddresses / deployAddresses6 calls: key -> locals
  reply,      \* the last answer a work() invocation got: [act, who, out]
  util,       \* a call of a helper of ssi.utils.ts: its arguments and result
  main,       \* start() of main.ts: [cron, pc, code]
  orphans     \* history: <<cell, name, run, group>> for every former member
              \* whose delete a reconciliation of the run gave up after its
              \* update of the group had succeeded

vars == <<cfg, nam, netbox, fortios, nsxmgr, worker, inv, live, procs, reply, util, main,
          orphans>>

ProcKeys == Calls \X Vdoms \X Families

\* locals of a work() invocation that is not running
InvIdle(st) ==
  [st |-> st, pc |-> "-", priority |-> "-", integrators |-> <<>>, idx |-> 0,
   netboxPrefixes |-> <<>>, fwIdx |-> 0, nsxIdx |-> 0, securityGroup |-> None,
   clean |-> TRUE]

\* locals of a deployAddresses call that does not exist
ProcIdle ==
  [pc |-> "idle", firewall |-> 0, host |-> "-", create_fg_group |-> FALSE,
   fg_group_name |-> "", prefixes |-> <<>>, groups |-> None, addresses |-> None,
   j |-> 0, removed |-> <<>>, log |-> <<>>]

\* The mutable part of the program state, threaded through the synchronous
\* code of a step.
Bundle == [worker |-> worker, inv |-> inv, live |-> live, procs |-> procs]

HandleIds == 1..(3 * MaxCalls + 3)

\* new NetboxDriver / FortiOSDriver / VMwareNSXDriver: a handle not in use
NewHandle(S) ==
  CHOOSE h \in HandleIds :
    /\ h \notin {x.id : x \in S.live}
    /\ h \notin {S.procs[k].firewall : k \in ProcKeys}
    /\ \A g \in HandleIds : (g < h) =>
         (g \in {x.id : x \in S.live} \/ g \in {S.procs[k].firewall : k \in ProcKeys})

\* a field that is cleared without disposing of its handle
DisposeForgetful(S, f) == [S EXCEPT !.worker[f] = 0]

\* driver.dispose() on the handle in field f, then this[f] = null
Dispose(S, f) ==
  IF S.worker[f] = 0 THEN S
  ELSE [S EXCEPT !.live = {x \in S.live : x.id # S.worker[f]},
                 !.worker[f] = 0]

\* this[f] = new Driver(...), constructed by invocation i
Configure(S, f, i) ==
  LET h == NewHandle(S) IN
  [S EXCEPT !.live = S.live \cup {[id |-> h, kind |-> f, by |-> i]},
            !.worker[f] = h]

\* a reset that forgets the firewall and the NSX handle
resetOnlyIPAM(S) == Dispose(S, "ipam")

\* ssi.worker.ts _resetDriverInstances
resetDriverInstances(S) == Dispose(Dispose(Dispose(S, "ipam"), "firewall"), "nsx")

\* a catch block that rethrows without clearing the flag
RaiseStillRunning(S, i) == [S EXCEPT !.inv[i] = InvIdle("raised")]

\* ssi.worker.ts work(), the catch block: this._running = false; throw error
Raise(S, i) ==
  [S EXCEPT !.worker.running = FALSE, !.inv[i] = InvIdle("raised")]

\* work() has returned 0: what the caller keeps of the invocation is the
\* priority it asked for and whether every collaborator call of the run
\* was answered with success
Returned(S, i) ==
  [InvIdle("ret0") EXCEPT !.priority = S.inv[i].priority, !.clean = S.inv[i].clean]

\* an await of invocation i has been answered: ok is FALSE when the call
\* was rejected or its answer could not be read
Answered(S, i, ok) ==
  IF S.inv[i].st = "active" THEN [S EXCEPT !.inv[i].clean = @ /\ ok] ELSE S

\* a finalization that returns 0 without clearing the flag
FinishStillRunning(S, i) ==
  LET S2 == resetDriverInstances(S)
  IN [S2 EXCEPT !.worker.run_counter = S2.worker.run_counter + 1,
                !.inv[i] = Returned(S2, i)]

\* ssi.worker.ts work(), after the loop over the integrators: return 0
Finish(S, i) ==
  LET S1 == [S EXCEPT !.worker.running = FALSE]
      S2 == resetDriverInstances(S1)
  IN [S2 EXCEPT !.worker.run_counter = S2.worker.run_counter + 1,
                !.inv[i] = Returned(S2, i)]

----------------------------------------------------------------------------
(* ssi.worker.ts work(): the synchronous code between two awaits            *)

\* the integrator the invocation is processing
Integrator(S, i) == S.inv[i].integrators[S.inv[i].idx][1]

Call(op, arg) == [op |-> op, arg |-> arg, res |-> "pending"]

\* deployAddresses / deployAddresses6 up to the first await: the snapshot
\* fetch of the groups is issued (firewall is the handle just configured)
StartDeploy(S, i, fg, family) ==
  [ProcIdle EXCEPT
     !.pc = "getGroups",
     !.firewall = S.worker.firewall,
     !.host = fg.endpoint.host,
     !.create_fg_group = Integrator(S, i).create_fg_group,
     !.fg_group_name = Integrator(S, i).fg_group_name,
     !.prefixes = IF family = 4 THEN mapper(S.inv[i].netboxPrefixes)
                  ELSE mapper6(S.inv[i].netboxPrefixes),
     !.log = <<Call("getGroups", <<>>)>>]

RECURSIVE Loop(_, _, _)
RECURSIVE FwLoop(_, _, _)

\* for (const integrator of integrators), from the k-th integrator on, up to
\* the await of getPrefixes
Loop(S, i, k) ==
  LET integrators == S.inv[i].integrators IN
  IF k > Len(integrators) THEN Finish(S, i)
  ELSE LET integrator == integrators[k] IN
       IF (~IsSome(integrator) \/ ~integrator[1].enabled) /\ ~cfg.testInt
       THEN Loop(S, i, k + 1)
       ELSE LET S1 == Dispose(S, "ipam") IN
            \* _configureIPAM(integrator?.netbox_endpoint) reads endpoint.url
            IF ~IsSome(integrator) \/ ~IsSome(integrator[1].netbox_endpoint)
            THEN Raise(S1, i)
            ELSE LET S2 == Configure(S1, "ipam", i) IN
                 [S2 EXCEPT !.inv[i].idx = k, !.inv[i].pc = "prefixes"]

\* the array cleanup at the end of an iteration, then the next integrator
EndIteration(S, i) ==
  Loop([S EXCEPT !.inv[i].netboxPrefixes = <<>>, !.inv[i].securityGroup = None],
       i, S.inv[i].idx + 1)

\* createSecurityGroup (nsx.service.ts): the desired security group
RECURSIVE MapPrefix(_)
MapPrefix(s) == IF s = <<>> THEN <<>> ELSE <<Head(s).prefix>> \o MapPrefix(Tail(s))

\* a desired security group that carries its expression even when the list
\* of addresses is empty
createSecurityGroupAlwaysExpression(integrator, prefixes) ==
  LET ipAddresses == MapPrefix(prefixes)
      tags == IF integrator.nsx_group_scope # "" /\ integrator.nsx_group_tag # ""
              THEN <<[scope |-> integrator.nsx_group_scope, tag |-> integrator.nsx_group_tag]>>
              ELSE <<>>
  IN [expression |-> Some(<<[ip_addresses |-> ipAddresses,
                             resource_type |-> "IPAddressExpression"]>>),
      display_name |-> <<"nsg-", integrator.nsx_group_name>>,
      description |-> "Managed by NAM",
      tags |-> tags]

createSecurityGroup(integrator, prefixes) ==
  LET ipAddresses == MapPrefix(prefixes)
      tags == IF integrator.nsx_group_scope # "" /\ integrator.nsx_group_tag # ""
              THEN <<[scope |-> integrator.nsx_group_scope, tag |-> integrator.nsx_group_tag]>>
              ELSE <<>>
  IN [expression |-> IF Len(ipAddresses) > 0
                     THEN Some(<<[ip_addresses |-> ipAddresses,
                                  resource_type |-> "IPAddressExpression"]>>)
                     ELSE None,
      display_name |-> <<"nsg-", integrator.nsx_group_name>>,
      description |-> "Managed by NAM",
      tags |-> tags]

\* for (const endpoint of integrator.nsx_endpoints), from the k-th endpoint
\* on, up to the await of getGroup inside deploySecurityGroup
NsxLoop(S, i, k) ==
  LET integrator == Integrator(S, i) IN
  IF /\ integrator.create_nsx_group
     /\ IsSome(integrator.nsx_endpoints)
     /\ k <= Len(integrator.nsx_endpoints[1])
  THEN LET S1 == Configure(Dispose(S, "nsx"), "nsx", i) IN
       \* securityGroup is built once, before the loop
       [S1 EXCEPT !.inv[i].pc = "getGroup", !.inv[i].nsxIdx = k,
                  !.inv[i].securityGroup =
                     IF k = 1
                     THEN Some(createSecurityGroup(integrator, S.inv[i].netboxPrefixes))
                     ELSE @]
  ELSE EndIteration(S, i)

\* a loop over the firewall endpoints that does not ask whether the
\* integrator wants a firewall group
FwLoopUngated(S, i, k) ==
  LET integrator == Integrator(S, i) IN
  IF /\ Len(integrator.fortigate_endpoints) > 0
     /\ k <= Len(integrator.fortigate_endpoints)
  THEN LET fortigate == integrator.fortigate_endpoints[k] IN
       IF Len(fortigate.vdoms) = 0 THEN FwLoop(S, i, k + 1)
       ELSE IF fortigate.endpoint.enabled
       THEN LET S1 == Configure(Dispose(S, "firewall"), "firewall", i) IN
            [S1 EXCEPT
               !.inv[i].pc = "deploy",
               !.inv[i].fwIdx = k,
               !.procs = [key \in ProcKeys |->
                            IF key[1] = i /\ key[2] \in Range(fortigate.vdoms)
                            THEN StartDeploy(S1, i, fortigate, key[3])
                            ELSE S1.procs[key]]]
       ELSE FwLoop(S, i, k + 1)
  ELSE NsxLoop(S, i, 1)

\* for (const fortigate of integrator.fortigate_endpoints), from the k-th
\* endpoint on, up to the await of Promise.all
FwLoop(S, i, k) ==
  LET integrator == Integrator(S, i) IN
  IF /\ integrator.create_fg_group
     /\ Len(integrator.fortigate_endpoints) > 0
     /\ k <= Len(integrator.fortigate_endpoints)
  THEN LET fortigate == integrator.fortigate_endpoints[k] IN
       IF Len(fortigate.vdoms) = 0 THEN FwLoop(S, i, k + 1)
       ELSE IF fortigate.endpoint.enabled
       THEN LET S1 == Configure(Dispose(S, "firewall"), "firewall", i) IN
            [S1 EXCEPT
               !.inv[i].pc = "deploy",
               !.inv[i].fwIdx = k,
               !.procs = [key \in ProcKeys |->
                            IF key[1] = i /\ key[2] \in Range(fortigate.vdoms)
                            THEN StartDeploy(S1, i, fortigate, key[3])
                            ELSE S1.procs[key]]]
       ELSE FwLoop(S, i, k + 1)
  ELSE NsxLoop(S, i, 1)

\* a prefix fetch whose failure counts as an empty answer
AfterPrefixesEmpty(S, i, netboxPrefixes) ==
  FwLoop([S EXCEPT !.inv[i].netboxPrefixes =
                     IF IsSome(netboxPrefixes) THEN netboxPrefixes[1] ELSE <<>>], i, 1)

\* a prefix fetch whose empty answer counts as a failure
AfterPrefixesSkippingEmpty(S, i, netboxPrefixes) ==
  IF ~IsSome(netboxPrefixes) \/ netboxPrefixes = Some(<<>>) THEN Loop(S, i, S.inv[i].idx + 1)
  ELSE FwLoop([S EXCEPT !.inv[i].netboxPrefixes = netboxPrefixes[1]], i, 1)

\* after the await of getPrefixes: netboxPrefixes is undefined when the call
\* was rejected
AfterPrefixes(S, i, netboxPrefixes) ==
  IF ~IsSome(netboxPrefixes) THEN Loop(S, i, S.inv[i].idx + 1)
  ELSE FwLoop([S EXCEPT !.inv[i].netboxPrefixes = netboxPrefixes[1]], i, 1)

\* after the await of the directory lookup: result is undefined when the
\* call was rejected
AfterIntegrators(S, i, result) ==
  LET integrators ==
        IF cfg.devMode /\ cfg.testInt THEN <<result>>
        ELSE IF IsSome(result) THEN [k \in DOMAIN result[1] |-> Some(result[1][k])]
        ELSE <<>>
  IN Loop([S EXCEPT !.inv[i].integrators = integrators], i, 1)

----------------------------------------------------------------------------
(* Actions of the worker                                                    *)

\* a getter that never reports a run in progress
isRunningNever == FALSE

\* get isRunning()
isRunning == worker.running

\* a start() that exits with code 0 however the run ended
AfterWorkExitZero(S) ==
  IF main.cron
  THEN IF \E i \in Calls : S.inv[i].st = "raised"
       THEN [main EXCEPT !.pc = "exited", !.code = 1]
       ELSE [main EXCEPT !.pc = IF S.inv[1].st # "new" THEN "interval" ELSE @]
  ELSE IF main.pc \in {"start", "await"} /\ S.inv[1].st = "active"
  THEN [main EXCEPT !.pc = "await"]
  ELSE IF main.pc \in {"start", "await"} /\ S.inv[1].st # "new"
  THEN [main EXCEPT !.pc = "timer", !.code = 0]
  ELSE main

\* main.ts start(), as far as the invocations let it go. With CRON_MODE
\* "true" it calls work() and leaves the later calls to the interval; it
\* neither awaits nor catches these calls, so a call that raises is an
\* unhandled rejection, which ends the process with exit code 1 before any
\* other callback runs. Otherwise it awaits its one call of work() and then
\* sets the timer of Deno.exit(0), or of Deno.exit(1) in the catch block when
\* the call raised.
AfterWork(S) ==
  IF main.cron
  THEN IF \E i \in Calls : S.inv[i].st = "raised"
       THEN [main EXCEPT !.pc = "exited", !.code = 1]
       ELSE [main EXCEPT !.pc = IF S.inv[1].st # "new" THEN "interval" ELSE @]
  ELSE IF main.pc \in {"start", "await"} /\ S.inv[1].st = "active"
  THEN [main EXCEPT !.pc = "await"]
  ELSE IF main.pc \in {"start", "await"} /\ S.inv[1].st # "new"
  THEN [main EXCEPT !.pc = "timer", !.code = IF S.inv[1].st = "raised" THEN 1 ELSE 0]
  ELSE main

\* work() is called by start() and, with CRON_MODE "true", by the interval
CanCall(i) == IF main.cron THEN main.pc \in {"start", "interval"} ELSE i = 1 /\ main.pc = "start"

\* the callbacks of a process run until Deno.exit
Commit(S) ==
  /\ main.pc # "exited"
  /\ main' = AfterWork(S)
  /\ worker' = S.worker
  /\ inv' = S.inv
  /\ live' = S.live
  /\ procs' = S.procs

Who(i) == <<i, "-", 0>>

\* work(priority) is called; the invocations are numbered in call order
WorkRejected(i) ==
  /\ inv[i].st = "new"
  /\ \A j \in Calls : j < i => inv[j].st # "new"
  /\ CanCall(i)
  /\ isRunning
  /\ inv' = [inv EXCEPT ![i] = InvIdle("ret7")]
  /\ reply' = [act |-> "work", who |-> Who(i), out |-> "ret7"]
  /\ UNCHANGED <<orphans, util, main, cfg, nam, netbox, fortios, nsxmgr, worker, live, procs>>

WorkAccepted(i, priority) ==
  /\ inv[i].st = "new"
  /\ \A j \in Calls : j < i => inv[j].st # "new"
  /\ CanCall(i)
  /\ ~isRunning
  /\ LET S1 == [Bundle EXCEPT !.worker.running = TRUE,
                              !.inv[i].st = "active",
                              !.inv[i].pc = "getIntegrators",
                              !.inv[i].priority = priority]
     IN \* SSIWorker._nms is undefined when NAM_URL is not set
        IF cfg.nms THEN Commit(S1) ELSE Commit(Raise(S1, i))
  /\ reply' = [act |-> "work", who |-> Who(i), out |-> IF cfg.nms THEN "accepted" ELSE "raised"]
  /\ UNCHANGED <<orphans, util, cfg, nam, netbox, fortios, nsxmgr>>

\* what the directory answers when it answers
Directory(priority) ==
  IF cfg.devMode /\ cfg.testInt THEN Head(nam)
  ELSE SelectSeq(nam, LAMBDA x : x.sync_priority = priority)

IntegratorsReply(i, ok) ==
  /\ inv[i].st = "active" /\ inv[i].pc = "getIntegrators"
  /\ ok => ~(cfg.devMode /\ cfg.testInt /\ nam = <<>>)
  /\ Commit(AfterIntegrators(Answered(Bundle, i, ok), i, IF ok THEN Some(Directory(inv[i].priority)) ELSE None))
  /\ reply' = [act |-> "getIntegrators", who |-> Who(i), out |-> IF ok THEN "ok" ELSE "rejected"]
  /\ UNCHANGED <<orphans, util, cfg, nam, netbox, fortios, nsxmgr>>

PrefixesReply(i, ok) ==
  /\ inv[i].st = "active" /\ inv[i].pc = "prefixes"
  /\ Commit(AfterPrefixes(Answered(Bundle, i, ok), i,
            IF ok THEN Some(netbox[Integrator(Bundle, i).query]) ELSE None))
  /\ reply' = [act |-> "getPrefixes", who |-> Who(i), out |-> IF ok THEN "ok" ELSE "rejected"]
  /\ UNCHANGED <<orphans, util, cfg, nam, netbox, fortios, nsxmgr>>

----------------------------------------------------------------------------
(* The firewall as the FortiOS driver shows it                              *)

RECURSIVE SeqOf(_)
SeqOf(set) ==
  IF set = {} THEN <<>>
  ELSE LET x == CHOOSE x \in set : TRUE IN <<x>> \o SeqOf(set \ {x})

Named(names) == [k \in DOMAIN names |-> [name |-> names[k]]]

\* every call sent to the vdom root
CellOfRoot(key) == <<procs[key].host, "root", key[3]>>

\* the object table a call of the reconciliation key is sent to: the host of
\* its handle, { vdom: vdom.name }, and the address / address6 family
Cell(key) == <<procs[key].host, key[2], key[3]>>

\* getAddressGroups / getAddressGroups6: results
GroupsOf(cell) ==
  SeqOf({[name |-> g.name, member |-> Named(SeqOf(g.member))] : g \in fortios[cell].groups})

\* getAddresses / getAddresses6: results
AddressesOf(cell) == Named(SeqOf(fortios[cell].addresses))

\* q_ref of an address object: the objects of the firewall that refer to it
QRef(cell, name) ==
  Cardinality({g \in fortios[cell].groups : name \in g.member})
    + (IF name \in fortios[cell].refs THEN 1 ELSE 0)

GroupNames(cell) == {g.name : g \in fortios[cell].groups}

\* what the firewall accepts
Accepts(cell, op, arg) ==
  CASE op = "addAddress" -> arg \notin fortios[cell].addresses
    [] op = "addAddressGroup" ->
         arg.name \notin GroupNames(cell) /\ Range(arg.member) \subseteq fortios[cell].addresses
    [] op = "updateAddressGroup" ->
         arg.name \in GroupNames(cell) /\ Range(arg.member) \subseteq fortios[cell].addresses
    [] op = "getAddress" -> arg \in fortios[cell].addresses
    [] op = "deleteAddress" -> arg \in fortios[cell].addresses /\ QRef(cell, arg) = 0
    [] OTHER -> TRUE

\* the firewall after an accepted call
Applied(cell, op, arg) ==
  LET t == fortios[cell] IN
  CASE op = "addAddress" -> [t EXCEPT !.addresses = @ \cup {arg}]
    [] op = "addAddressGroup" ->
         [t EXCEPT !.groups = @ \cup {[name |-> arg.name, member |-> Range(arg.member)]}]
    [] op = "updateAddressGroup" ->
         [t EXCEPT !.groups = {g \in @ : g.name # arg.name}
                               \cup {[name |-> arg.name, member |-> Range(arg.member)]}]
    [] op = "deleteAddress" -> [t EXCEPT !.addresses = @ \ {arg}]
    [] OTHER -> t

----------------------------------------------------------------------------
(* fortios.service.ts deployAddresses / deployAddresses6: the synchronous   *)
(* code between two awaits. The two functions differ in the driver methods  *)
(* they call and in the prefix of the group name.                           *)

GroupName(family, fg_group_name) ==
  <<IF family = 4 THEN "grp_" ELSE "grp6_", fg_group_name>>

Issue(p, pc, arg) == [p EXCEPT !.pc = pc, !.log = Append(@, Call(pc, arg))]

\* an answer that is not waited for
ResolveNever(p, res) == p

\* the awaited call is answered
Resolve(p, res) == [p EXCEPT !.log[Len(p.log)].res = res]

\* the call has returned: its locals are gone
Done(p) == [ProcIdle EXCEPT !.pc = "done"]

\* for (const removed_prefix_name of updates.removed), from the k-th name on
RefLoop(p, k) ==
  IF k <= Len(p.removed)
  THEN [Issue(p, "getAddress", p.removed[k]) EXCEPT !.j = k]
  ELSE Done(p)

\* if (integrator.create_fg_group && integrator.fg_group_name) { ... }
GroupStep(p, family) ==
  LET groupName == GroupName(family, p.fg_group_name) IN
  IF p.create_fg_group /\ p.fg_group_name # ""
  THEN LET g == FindIndex(p.groups[1], groupName) IN
       IF g = 0
       THEN Issue(p, "addAddressGroup",
                  [name |-> groupName, member |-> MapName(p.prefixes)])
       ELSE LET updatedGroup == [name |-> groupName, member |-> UniqueMembers(p.prefixes)]
                updates == getAddGrpMemberChanges(Some(p.groups[1][g]), Some(updatedGroup))[1]
            IN IF Len(updates.added) > 0 \/ Len(updates.removed) > 0
               THEN [Issue(p, "updateAddressGroup",
                           [name |-> groupName, member |-> MapName(updatedGroup.member)])
                       EXCEPT !.removed = updates.removed]
               ELSE Done(p)
  ELSE Done(p)

\* for (const prefix of prefixes), from the k-th prefix on
RECURSIVE CreateLoop(_, _, _)
CreateLoop(p, family, k) ==
  IF k > Len(p.prefixes) THEN GroupStep(p, family)
  ELSE IF FindIndex(p.addresses[1], p.prefixes[k].name) = 0
       THEN [Issue(p, "addAddress", p.prefixes[k].name) EXCEPT !.j = k]
       ELSE CreateLoop(p, family, k + 1)

\* a reconciliation that takes a failed snapshot for an empty one
AfterSnapshotUnchecked(p, family) ==
  CreateLoop([p EXCEPT !.groups = IF IsSome(@) THEN @ ELSE Some(<<>>),
                       !.addresses = IF IsSome(@) THEN @ ELSE Some(<<>>)], family, 1)

\* if (!groups || !addresses) return
AfterSnapshot(p, family) ==
  IF ~IsSome(p.groups) \/ ~IsSome(p.addresses) THEN Done(p)
  ELSE CreateLoop(p, family, 1)

\* a join that goes on when the first call returns
SettleEarly(S, key, p) ==
  LET i == key[1]
      awaited == S.inv[i].st = "active" /\ S.inv[i].pc = "deploy"
      S1 == [S EXCEPT !.procs[key] = p]
  IN IF p.pc = "threw"
     THEN LET S2 == [S1 EXCEPT !.procs[key] = ProcIdle] IN
          IF awaited THEN Raise(S2, i) ELSE S2
     ELSE IF p.pc = "done" /\ ~awaited
     THEN [S1 EXCEPT !.procs[key] = ProcIdle]
     ELSE IF p.pc = "done"
     THEN FwLoop([S1 EXCEPT !.procs[key] = ProcIdle], i, S.inv[i].fwIdx + 1)
     ELSE S1

\* a Promise.all that is not fulfilled when its last reconciliation ends
SettleStuck(S, key, p) ==
  LET i == key[1]
      awaited == S.inv[i].st = "active" /\ S.inv[i].pc = "deploy"
      S1 == [S EXCEPT !.procs[key] = p]
  IN IF p.pc = "threw"
     THEN LET S2 == [S1 EXCEPT !.procs[key] = ProcIdle] IN
          IF awaited THEN Raise(S2, i) ELSE S2
     ELSE IF p.pc = "done" /\ ~awaited
     THEN [S1 EXCEPT !.procs[key] = ProcIdle]
     ELSE S1

\* A deployAddresses call has reached its next await, returned or thrown:
\* Promise.all of the invocation that started it settles when all its calls
\* have returned or when the first of them throws.
Settle(S, key, p) ==
  LET i == key[1]
      awaited == S.inv[i].st = "active" /\ S.inv[i].pc = "deploy"
      S1 == [S EXCEPT !.procs[key] = p]
      mine == {k \in ProcKeys : k[1] = i}
  IN IF p.pc = "threw"
     THEN LET S2 == [S1 EXCEPT !.procs[key] = ProcIdle] IN
          IF awaited THEN Raise(S2, i) ELSE S2
     ELSE IF p.pc = "done" /\ ~awaited
     THEN [S1 EXCEPT !.procs[key] = ProcIdle]
     ELSE IF p.pc = "done" /\ \A k \in mine : S1.procs[k].pc \in {"idle", "done"}
     THEN FwLoop([S1 EXCEPT !.procs = [k \in ProcKeys |->
                                         IF k \in mine THEN ProcIdle ELSE S1.procs[k]]],
                 i, S.inv[i].fwIdx + 1)
     ELSE S1

----------------------------------------------------------------------------
(* Actions of deployAddresses / deployAddresses6                            *)

\* Promise.all of invocation i settles in this step of one of its calls
Joined(key, p) ==
  /\ inv[key[1]].st = "active" /\ inv[key[1]].pc = "deploy"
  /\ \/ p.pc = "threw"
     \/ /\ p.pc = "done"
        /\ \A k \in ProcKeys : (k[1] = key[1] /\ k # key) => procs[k].pc \in {"idle", "done"}

\* the step answers a reference-count fetch with a failure or a non-zero
\* count, after the group update of the reconciliation was accepted
GivenUp(key, p) ==
  /\ procs[key].pc = "getAddress"
  /\ p.pc \notin {"deleteAddress", "threw"}
  /\ \E m \in DOMAIN procs[key].log :
       procs[key].log[m].op = "updateAddressGroup" /\ procs[key].log[m].res = "ok"

ProcStep(key, p, ok) ==
  /\ Commit(Settle(Answered(Bundle, key[1], ok), key, p))
  /\ reply' = IF Joined(key, p)
              THEN [act |-> "deploy", who |-> Who(key[1]),
                    out |-> IF p.pc = "threw" THEN p.log[Len(p.log)].res ELSE "ok"]
              ELSE reply
  /\ orphans' = IF GivenUp(key, p)
                THEN orphans \cup {<<Cell(key), procs[key].removed[procs[key].j], key[1],
                                      procs[key].fg_group_name>>}
                ELSE orphans
  /\ UNCHANGED <<util, cfg, nam, netbox, nsxmgr>>

GetGroupsReply(key, ok) ==
  /\ procs[key].pc = "getGroups"
  /\ LET p1 == Resolve(procs[key], IF ok THEN "ok" ELSE "rejected")
         p2 == [p1 EXCEPT !.groups = IF ok THEN Some(GroupsOf(Cell(key))) ELSE None]
     IN ProcStep(key, Issue(p2, "getAddresses", <<>>), ok)
  /\ UNCHANGED fortios

GetAddressesReply(key, ok) ==
  /\ procs[key].pc = "getAddresses"
  /\ LET p1 == Resolve(procs[key], IF ok THEN "ok" ELSE "rejected")
         p2 == [p1 EXCEPT !.addresses = IF ok THEN Some(AddressesOf(Cell(key))) ELSE None]
     IN ProcStep(key, AfterSnapshot(p2, key[3]), ok)
  /\ UNCHANGED fortios

\* the answer to a call that changes the firewall
Mutation(key, ok) ==
  LET p == procs[key]
      arg == p.log[Len(p.log)].arg
  IN /\ ok => Accepts(Cell(key), p.pc, arg)
     /\ fortios' = IF ok THEN [fortios EXCEPT ![Cell(key)] = Applied(Cell(key), p.pc, arg)]
                   ELSE fortios

\* a create loop that gives the reconciliation up at the first failed create
AddAddressReplyStopping(key, ok) ==
  /\ procs[key].pc = "addAddress"
  /\ Mutation(key, ok)
  /\ LET p1 == Resolve(procs[key], IF ok THEN "ok" ELSE "rejected")
     IN ProcStep(key, IF ok THEN CreateLoop(p1, key[3], p1.j + 1) ELSE Done(p1), ok)

AddAddressReply(key, ok) ==
  /\ procs[key].pc = "addAddress"
  /\ Mutation(key, ok)
  /\ LET p1 == Resolve(procs[key], IF ok THEN "ok" ELSE "rejected")
     IN ProcStep(key, CreateLoop(p1, key[3], p1.j + 1), ok)

AddGroupReply(key, ok) ==
  /\ procs[key].pc = "addAddressGroup"
  /\ Mutation(key, ok)
  /\ ProcStep(key,
              Done(Resolve(procs[key], IF ok THEN "ok" ELSE "rejected")), ok)

\* a group update that is answered with success and leaves the group as it was
UpdateGroupReplyLost(key, ok) ==
  /\ procs[key].pc = "updateAddressGroup"
  /\ ok => Accepts(Cell(key), "updateAddressGroup", procs[key].log[Len(procs[key].log)].arg)
  /\ fortios' = fortios
  /\ ProcStep(key,
              RefLoop(Resolve(procs[key], IF ok THEN "ok" ELSE "rejected"), 1), ok)

UpdateGroupReply(key, ok) ==
  /\ procs[key].pc = "updateAddressGroup"
  /\ Mutation(key, ok)
  /\ ProcStep(key,
              RefLoop(Resolve(procs[key], IF ok THEN "ok" ELSE "rejected"), 1), ok)

\* a reference-count gate that lets every answered object through
GetAddressReplyUngated(key, out) ==
  /\ procs[key].pc = "getAddress"
  /\ out \in {"rejected", "malformed", "ok"}
  /\ out = "ok" => Accepts(Cell(key), "getAddress", procs[key].removed[procs[key].j])
  /\ LET p == procs[key]
         name == p.removed[p.j]
         q_ref == QRef(Cell(key), name)
         res == IF out = "ok" THEN (IF q_ref = 0 THEN "zero" ELSE "nonzero") ELSE out
         p1 == Resolve(p, res)
     IN ProcStep(key,
                 IF out = "malformed" THEN [p1 EXCEPT !.pc = "threw"]
                 ELSE IF out = "ok" THEN Issue(p1, "deleteAddress", name)
                 ELSE RefLoop(p1, p1.j + 1),
                 out = "ok")
  /\ UNCHANGED fortios

\* getAddress(name, {with_meta: 1}): rejected, answered without a results
\* array ("malformed": results[0] throws), or answered with the object
GetAddressReply(key, out) ==
  /\ procs[key].pc = "getAddress"
  /\ out \in {"rejected", "malformed", "ok"}
  /\ out = "ok" => Accepts(Cell(key), "getAddress", procs[key].removed[procs[key].j])
  /\ LET p == procs[key]
         name == p.removed[p.j]
         q_ref == QRef(Cell(key), name)
         res == IF out = "ok" THEN (IF q_ref = 0 THEN "zero" ELSE "nonzero") ELSE out
         p1 == Resolve(p, res)
     IN ProcStep(key,
                 IF out = "malformed" THEN [p1 EXCEPT !.pc = "threw"]
                 ELSE IF out = "ok" /\ q_ref = 0 THEN Issue(p1, "deleteAddress", name)
                 ELSE RefLoop(p1, p1.j + 1),
                 out = "ok")
  /\ UNCHANGED fortios

DeleteAddressReply(key, ok) ==
  /\ procs[key].pc = "deleteAddress"
  /\ Mutation(key, ok)
  /\ LET p1 == Resolve(procs[key], IF ok THEN "ok" ELSE "rejected")
     IN ProcStep(key, RefLoop(p1, p1.j + 1), ok)

----------------------------------------------------------------------------
(* nsx.service.ts                                                           *)

RECURSIVE Flatten(_)
Flatten(expression) ==
  IF expression = <<>> THEN <<>>
  ELSE Head(expression).ip_addresses \o Flatten(Tail(expression))

\* groupIps: the IP lists of all expressions of the group, de-duplicated
GroupIps(securityGroup) ==
  Dedup(IF IsSome(securityGroup.expression) THEN Flatten(securityGroup.expression[1]) ELSE <<>>)

\* a comparison that sees the missing values and not the surplus ones
IpChangesAddedOnly(groupIps, prefixes) ==
  [added   |-> SelectSeq(MapPrefix(prefixes), LAMBDA ip : ip \notin Range(groupIps)),
   deleted |-> <<>>]

\* added and deleted of deploySecurityGroup
IpChanges(groupIps, prefixes) ==
  [added   |-> SelectSeq(MapPrefix(prefixes), LAMBDA ip : ip \notin Range(groupIps)),
   deleted |-> SelectSeq(groupIps, LAMBDA ip : ip \notin Range(MapPrefix(prefixes)))]

NsxHost(i) == Integrator(Bundle, i).nsx_endpoints[1][inv[i].nsxIdx].host

\* a lookup that takes a group it did not get for a group without values
GetGroupReplyDiffing(i, found) ==
  /\ inv[i].st = "active" /\ inv[i].pc = "getGroup"
  /\ found => IsSome(nsxmgr[NsxHost(i)])
  /\ LET changes == IpChanges(IF found THEN GroupIps(nsxmgr[NsxHost(i)][1]) ELSE <<>>,
                              inv[i].netboxPrefixes)
         S == Answered(Bundle, i, found \/ ~IsSome(nsxmgr[NsxHost(i)]))
     IN IF Len(changes.added) > 0 \/ Len(changes.deleted) > 0
        THEN Commit([S EXCEPT !.inv[i].pc = "patchGroup"])
        ELSE Commit(NsxLoop(S, i, inv[i].nsxIdx + 1))
  /\ reply' = [act |-> "getGroup", who |-> Who(i), out |-> IF found THEN "ok" ELSE "rejected"]
  /\ UNCHANGED <<orphans, util, cfg, nam, netbox, fortios, nsxmgr>>

\* getGroup(display_name): found is FALSE when the call was rejected (the
\* group does not exist, or the request failed)
GetGroupReply(i, found) ==
  /\ inv[i].st = "active" /\ inv[i].pc = "getGroup"
  /\ found => IsSome(nsxmgr[NsxHost(i)])
  /\ LET changes == IpChanges(GroupIps(nsxmgr[NsxHost(i)][1]), inv[i].netboxPrefixes)
         \* a lookup of a group that does not exist is answered, not failed
         S == Answered(Bundle, i, found \/ ~IsSome(nsxmgr[NsxHost(i)]))
     IN IF ~found \/ Len(changes.added) > 0 \/ Len(changes.deleted) > 0
        THEN Commit([S EXCEPT !.inv[i].pc = "patchGroup"])
        ELSE Commit(NsxLoop(S, i, inv[i].nsxIdx + 1))
  /\ reply' = [act |-> "getGroup", who |-> Who(i), out |-> IF found THEN "ok" ELSE "rejected"]
  /\ UNCHANGED <<orphans, util, cfg, nam, netbox, fortios, nsxmgr>>

\* a replace whose rejection is not caught
PatchGroupReplyThrowing(i, ok) ==
  /\ inv[i].st = "active" /\ inv[i].pc = "patchGroup"
  /\ nsxmgr' = IF ok
               THEN [nsxmgr EXCEPT ![NsxHost(i)] = inv[i].securityGroup]
               ELSE nsxmgr
  /\ Commit(IF ok THEN NsxLoop(Answered(Bundle, i, ok), i, inv[i].nsxIdx + 1)
            ELSE Raise(Bundle, i))
  /\ reply' = [act |-> "patchGroup", who |-> Who(i), out |-> IF ok THEN "ok" ELSE "rejected"]
  /\ UNCHANGED <<orphans, util, cfg, nam, netbox, fortios>>

\* patchGroup(display_name, securityGroupObject): whole-object replace
PatchGroupReply(i, ok) ==
  /\ inv[i].st = "active" /\ inv[i].pc = "patchGroup"
  /\ nsxmgr' = IF ok
               THEN [nsxmgr EXCEPT ![NsxHost(i)] = inv[i].securityGroup]
               ELSE nsxmgr
  /\ Commit(NsxLoop(Answered(Bundle, i, ok), i, inv[i].nsxIdx + 1))
  /\ reply' = [act |-> "patchGroup", who |-> Who(i), out |-> IF ok THEN "ok" ELSE "rejected"]
  /\ UNCHANGED <<orphans, util, cfg, nam, netbox, fortios>>

----------------------------------------------------------------------------
(* The collaborators' data of the checked runs                              *)

Cidr(net, len) == [net |-> net, len |-> len]

\* VLAN names: capitalised, upper case, lower case, and the mixed name of
\* main_test.ts with a digit and a hyphen
VlanProduction == <<"P", "r", "o", "d", "u", "c", "t", "i", "o", "n">>
VlanDMZ == <<"D", "M", "Z">>
VlanLab == <<"l", "a", "b">>
VlanIPv6Network == <<"I", "P", "v", "6", "-", "N", "e", "t", "w", "o", "r", "k">>

PrefixA == [prefix |-> Cidr("10.0.0.0", 24), family |-> 4,
            display |-> Cidr("10.0.0.0", 24), vlan |-> Some([name |-> VlanProduction])]
PrefixB == [prefix |-> Cidr("192.168.0.0", 16), family |-> 4,
            display |-> Cidr("192.168.0.0", 16), vlan |-> None]
PrefixC == [prefix |-> Cidr("2001:db8::", 32), family |-> 6,
            display |-> Cidr("2001:db8::", 32), vlan |-> Some([name |-> VlanIPv6Network])]

\* address objects of prefixes that have left the IPAM
OldA == <<"netbox_", Cidr("172.16.0.0", 12)>>
OldB == <<"netbox_", Cidr("172.20.0.0", 14)>>
Old6 == <<"netbox6_", Cidr("2001:db8:1::", 48)>>

NameOf(p) == IF p.family = 4 THEN <<"netbox_", p.prefix>> ELSE <<"netbox6_", p.display>>

\* the answers of the IPAM to the queries of the integrators
Netbox ==
  [q \in {"none", "a", "aa", "ab", "ac"} |->
     CASE q = "none" -> <<>>
       [] q = "a" -> <<PrefixA>>
       [] q = "aa" -> <<PrefixA, PrefixA>>
       [] q = "ab" -> <<PrefixA, PrefixB>>
       [] q = "ac" -> <<PrefixA, PrefixC>>]

Firewall(addresses, members, refs, family) ==
  [addresses |-> addresses,
   groups |-> IF IsSome(members)
              THEN {[name |-> GroupName(family, "g"), member |-> members[1]]}
              ELSE {},
   refs |-> refs]

\* states of one vdom of a firewall, per family
Firewalls4 ==
  {Firewall({}, None, {}, 4),
   Firewall({NameOf(PrefixA)}, Some({NameOf(PrefixA)}), {}, 4),
   Firewall({NameOf(PrefixA), OldA}, Some({NameOf(PrefixA), OldA}), {}, 4),
   Firewall({OldA, OldB}, Some({OldA, OldB}), {OldA}, 4)}

Firewalls6 ==
  {Firewall({}, None, {}, 6),
   Firewall({Old6}, Some({Old6}), {}, 6)}

Fortigate(host, enabled, vdoms) ==
  [endpoint |-> [host |-> host, enabled |-> enabled], vdoms |-> vdoms]

NsxEndpoint(host, type) == [host |-> host, type |-> type, enabled |-> TRUE]

\* an integrator of the directory that deploys nowhere
Plain(query) ==
  [enabled |-> TRUE, sync_priority |-> "low", query |-> query,
   netbox_endpoint |-> Some([host |-> "netbox"]),
   create_fg_group |-> FALSE, fg_group_name |-> "", fortigate_endpoints |-> <<>>,
   create_nsx_group |-> FALSE, nsx_group_name |-> "", nsx_group_scope |-> "",
   nsx_group_tag |-> "", nsx_endpoints |-> None]

ToFortigate(query, endpoints) ==
  [Plain(query) EXCEPT !.create_fg_group = TRUE, !.fg_group_name = "g",
                       !.fortigate_endpoints = endpoints]

ToNsx(query, endpoints) ==
  [Plain(query) EXCEPT !.create_nsx_group = TRUE, !.nsx_group_name = "g",
                       !.nsx_group_scope = "nam", !.nsx_group_tag = "managed",
                       !.nsx_endpoints = Some(endpoints)]

ToBoth(query) ==
  [ToFortigate(query, <<Fortigate("fw1", TRUE, <<"root">>)>>) EXCEPT
     !.create_nsx_group = TRUE, !.nsx_group_name = "g",
     !.nsx_endpoints = Some(<<NsxEndpoint("nsx1", "local")>>)]

Production == [devMode |-> FALSE, testInt |-> FALSE, nms |-> TRUE]

World(c, directory, fw4, fw6, nsx) ==
  [cfg |-> c, nam |-> directory, fw4 |-> fw4, fw6 |-> fw6, nsx |-> nsx]

NsxGroup(ips) ==
  [expression |-> Some(<<[ip_addresses |-> ips, resource_type |-> "IPAddressExpression"]>>),
   display_name |-> <<"nsg-", "g">>, description |-> "Managed by NAM", tags |-> <<>>]

\* one integrator, one firewall, one vdom: the reconciliation of a scope
\* against every state of the scope
ScopeWorlds ==
  {World(Production, <<ToFortigate(q, <<Fortigate("fw1", TRUE, <<"root">>)>>)>>, fw4, fw6, None) :
     q \in {"none", "a", "aa", "ab"}, fw4 \in Firewalls4, fw6 \in {Firewall({}, None, {}, 6)}}
  \cup
  {World(Production, <<ToFortigate(q, <<Fortigate("fw1", TRUE, <<"root">>)>>)>>,
         Firewall({}, None, {}, 4), fw6, None) :
     q \in {"none", "ac"}, fw6 \in Firewalls6}

\* directories of several integrators, endpoints and vdoms, deployed to
\* firewalls that already hold the desired state of query "a"
Directories ==
  {<<>>,
   <<ToBoth("a"), ToNsx("a", <<NsxEndpoint("nsx1", "local"),
                               [NsxEndpoint("nsx2", "global") EXCEPT !.enabled = FALSE]>>)>>,
   <<[ToBoth("a") EXCEPT !.enabled = FALSE], Plain("none")>>,
   <<ToBoth("a"), [Plain("a") EXCEPT !.netbox_endpoint = None]>>,
   <<[ToBoth("a") EXCEPT !.sync_priority = "high"], Plain("a")>>,
   <<ToFortigate("a", <<Fortigate("fw1", FALSE, <<"root">>),
                        Fortigate("fw1", TRUE, <<>>),
                        Fortigate("fw2", TRUE, <<"root", "dmz">>)>>)>>,
   <<ToFortigate("a", <<Fortigate("fw1", TRUE, <<"root">>), Fortigate("fw2", TRUE, <<"root">>)>>),
     [ToFortigate("a", <<Fortigate("fw1", TRUE, <<"root">>)>>) EXCEPT !.fg_group_name = ""]>>,
   \* endpoints declared for a target the integrator does not want managed
   <<[ToBoth("a") EXCEPT !.create_fg_group = FALSE],
     [ToBoth("a") EXCEPT !.create_nsx_group = FALSE]>>}

DirectoryWorlds ==
  {World(Production, d, Firewall({NameOf(PrefixA)}, Some({NameOf(PrefixA)}), {}, 4),
         Firewall({}, Some({}), {}, 6), nsx) :
     d \in Directories, nsx \in {None, Some(NsxGroup(<<PrefixA.prefix>>))}}

\* the environments of the process: development mode, a designated test
\* integrator (NAM_TEST_INT), no directory (NAM_URL not set)
Environments ==
  {[devMode |-> d, testInt |-> t, nms |-> n] : d \in BOOLEAN, t \in BOOLEAN, n \in BOOLEAN}

EnvironmentWorlds ==
  {World(c, d, Firewall({}, None, {}, 4), Firewall({}, None, {}, 6), None) :
     c \in Environments \ {Production},
     d \in {<<>>, <<[ToBoth("a") EXCEPT !.enabled = FALSE]>>}}

\* a security group as the platform holds it, with any expressions
NsxGroupOf(lists) ==
  [expression |-> IF lists = <<>> THEN None
                  ELSE Some([k \in DOMAIN lists |->
                               [ip_addresses |-> lists[k],
                                resource_type |-> "IPAddressExpression"]]),
   display_name |-> <<"nsg-", "g">>, description |-> "Managed by NAM", tags |-> <<>>]

\* one integrator and one security platform: the reconciliation of a
\* security group that exists, against desired lists equal to its values,
\* smaller, larger, repeated and empty
NsxWorlds ==
  {World(Production, <<ToNsx(q, <<NsxEndpoint("nsx1", "local")>>)>>,
         Firewall({}, None, {}, 4), Firewall({}, None, {}, 6), Some(NsxGroupOf(lists))) :
     q \in {"none", "a", "aa", "ab"},
     lists \in {<<>>,
                <<<<PrefixA.prefix>>>>,
                <<<<PrefixA.prefix, PrefixA.prefix>>, <<PrefixB.prefix, PrefixA.prefix>>>>,
                <<<<Cidr("172.16.0.0", 12)>>, <<PrefixA.prefix>>>>}}

\* one integrator and one firewall with two vdoms that hold different
\* objects: root holds nothing, dmz holds the desired object and a former one
VdomWorlds ==
  {[cfg |-> Production,
    nam |-> <<ToFortigate("a", <<Fortigate("fw1", TRUE, <<"root", "dmz">>)>>)>>,
    fw4 |-> Firewall({}, None, {}, 4),
    fw6 |-> Firewall({}, Some({}), {}, 6),
    nsx |-> None,
    dmz4 |-> Firewall({NameOf(PrefixA), OldA}, Some({NameOf(PrefixA), OldA}), {}, 4)]}

\* one scope in which the group of each family holds a former member
OrphanWorlds ==
  {World(Production, <<ToFortigate("a", <<Fortigate("fw1", TRUE, <<"root">>)>>)>>,
         Firewall({NameOf(PrefixA), OldA}, Some({NameOf(PrefixA), OldA}), {}, 4),
         Firewall({Old6}, Some({Old6}), {}, 6), None)}

\* two integrators that manage the group of one name in one scope of one
\* firewall with different queries; the group holds a former member
SharedWorlds ==
  {World(Production,
         <<ToFortigate("ab", <<Fortigate("fw1", TRUE, <<"root">>)>>),
           ToFortigate("a", <<Fortigate("fw1", TRUE, <<"root">>)>>)>>,
         Firewall({NameOf(PrefixA), OldA}, Some({NameOf(PrefixA), OldA}), {}, 4),
         Firewall({}, Some({}), {}, 6), None)}

Worlds ==
  ScopeWorlds \cup DirectoryWorlds \cup EnvironmentWorlds \cup NsxWorlds \cup VdomWorlds
    \cup OrphanWorlds \cup SharedWorlds

----------------------------------------------------------------------------
(* Specification                                                            *)

\* no helper of ssi.utils.ts is being called on its own
UtilIdle ==
  [fn |-> "-", prefixes |-> <<>>, existingGroup |-> None, newGroup |-> None,
   integrator |-> Plain("none"), list |-> <<>>, updates |-> None, group |-> None,
   threw |-> FALSE]

\* the process in the world w before the first call of work()
Start(w) ==
  /\ cfg = w.cfg
  /\ nam = w.nam
  /\ fortios = [cell \in FwHosts \X Vdoms \X Families |->
                  IF cell[3] = 6 THEN w.fw6
                  ELSE IF cell[2] = "dmz" /\ "dmz4" \in DOMAIN w THEN w.dmz4
                  ELSE w.fw4]
  /\ nsxmgr = [h \in NsxHosts |-> w.nsx]
  /\ netbox = Netbox
  /\ worker = [running |-> FALSE, ipam |-> 0, firewall |-> 0, nsx |-> 0, run_counter |-> 0]
  /\ inv = [i \in Calls |-> InvIdle("new")]
  /\ live = {}
  /\ procs = [key \in ProcKeys |-> ProcIdle]
  /\ reply = [act |-> "init", who |-> Who(0), out |-> "-"]
  /\ orphans = {}

\* the timer set by start() fires: Deno.exit(code)
Exit ==
  /\ main.pc = "timer"
  /\ main' = [main EXCEPT !.pc = "exited"]
  /\ UNCHANGED <<cfg, nam, netbox, fortios, nsxmgr, worker, inv, live, procs, reply, util,
               orphans>>

\* the values of CRON_MODE = "true" the world is run with: the firewall
\* with two vdoms is reconciled by a process that runs once
Modes(w) == IF w \in VdomWorlds THEN {FALSE} ELSE BOOLEAN

\* the process before start() in one of the worlds
InitIn(worlds) ==
  /\ \E w \in worlds :
       /\ Start(w)
       /\ \E cron \in Modes(w) : main = [cron |-> cron, pc |-> "start", code |-> 0]
  /\ util = UtilIdle

Init == InitIn(Worlds)

Next ==
  \/ \E i \in Calls : WorkRejected(i)
  \/ \E i \in Calls, priority \in Priorities : WorkAccepted(i, priority)
  \/ \E i \in Calls, ok \in BOOLEAN : IntegratorsReply(i, ok)
  \/ \E i \in Calls, ok \in BOOLEAN : PrefixesReply(i, ok)
  \/ \E key \in ProcKeys, ok \in BOOLEAN : GetGroupsReply(key, ok)
  \/ \E key \in ProcKeys, ok \in BOOLEAN : GetAddressesReply(key, ok)
  \/ \E key \in ProcKeys, ok \in BOOLEAN : AddAddressReply(key, ok)
  \/ \E key \in ProcKeys, ok \in BOOLEAN : AddGroupReply(key, ok)
  \/ \E key \in ProcKeys, ok \in BOOLEAN : UpdateGroupReply(key, ok)
  \/ \E key \in ProcKeys, out \in {"rejected", "malformed", "ok"} : GetAddressReply(key, out)
  \/ \E key \in ProcKeys, ok \in BOOLEAN : DeleteAddressReply(key, ok)
  \/ \E i \in Calls, found \in BOOLEAN : GetGroupReply(i, found)
  \/ \E i \in Calls, ok \in BOOLEAN : PatchGroupReply(i, ok)
  \/ Exit

Spec == Init /\ [][Next]_vars

\* The steps the process is bound to take: the interval ticks and the exit
\* timer fires (main.ts), and a call of the IPAM, firewall or NSX driver is
\* answered, because these drivers are built with
\* signal: AbortSignal.timeout(REQUEST_TIMEOUT) (ssi.worker.ts 326-371). The
\* directory client is built without a timeout (ssi.worker.ts 55-65): nothing
\* in the code obliges an answer to the directory lookup.
Scheduled ==
  \/ \E i \in Calls : WorkRejected(i)
  \/ \E i \in Calls, priority \in Priorities : WorkAccepted(i, priority)
  \/ \E i \in Calls, ok \in BOOLEAN : PrefixesReply(i, ok)
  \/ \E key \in ProcKeys, ok \in BOOLEAN : GetGroupsReply(key, ok)
  \/ \E key \in ProcKeys, ok \in BOOLEAN : GetAddressesReply(key, ok)
  \/ \E key \in ProcKeys, ok \in BOOLEAN : AddAddressReply(key, ok)
  \/ \E key \in ProcKeys, ok \in BOOLEAN : AddGroupReply(key, ok)
  \/ \E key \in ProcKeys, ok \in BOOLEAN : UpdateGroupReply(key, ok)
  \/ \E key \in ProcKeys, out \in {"rejected", "malformed", "ok"} : GetAddressReply(key, out)
  \/ \E key \in ProcKeys, ok \in BOOLEAN : DeleteAddressReply(key, ok)
  \/ \E i \in Calls, found \in BOOLEAN : GetGroupReply(i, found)
  \/ \E i \in Calls, ok \in BOOLEAN : PatchGroupReply(i, ok)
  \/ Exit

\* The worlds of the fair behaviours: the firewall with two vdoms, the scope
\* with former members in both families, and the environments.
LiveWorlds == VdomWorlds \cup OrphanWorlds \cup EnvironmentWorlds

LiveSpec == InitIn(LiveWorlds) /\ [][Next]_vars /\ WF_vars(Scheduled)

----------------------------------------------------------------------------
(* The helpers of ssi.utils.ts called on their own, as the unit tests of    *)
(* main_test.ts call them: the arguments are drawn in the initial state.    *)

\* longest prefix list and longest member list of a call
MaxLen == 2

Seqs(set, n) == UNION {[1..k -> set] : k \in 0..n}

Prefix(family, prefix, display, vlan) ==
  [prefix |-> prefix, family |-> family, display |-> display, vlan |-> vlan]

\* prefix records: both families and a record without a family (0); a VLAN
\* that is absent, has an empty name, a lowercase name, a capitalised name,
\* an upper-case name, a mixed name;
\* prefix lengths on and off the octet boundaries; a display string that is
\* not the prefix string
PrefixPool ==
  {PrefixA, PrefixB, PrefixC,
   Prefix(4, Cidr("10.0.0.0", 8), Cidr("10.0.0.0", 8), Some([name |-> <<>>])),
   Prefix(4, Cidr("172.16.5.128", 25), Cidr("172.16.5.128", 25), Some([name |-> VlanLab])),
   Prefix(4, Cidr("0.0.0.0", 0), Cidr("0.0.0.0", 0), None),
   Prefix(4, Cidr("10.1.2.3", 32), Cidr("10.1.2.3", 32), Some([name |-> VlanDMZ])),
   Prefix(6, Cidr("fd00:0:0::", 8), Cidr("fd00::", 8), None),
   Prefix(0, Cidr("10.9.0.0", 16), Cidr("10.9.0.0", 16), Some([name |-> VlanProduction]))}

MemberPool == {NameOf(PrefixA), NameOf(PrefixB), OldA}

\* the groups of a call: defined ones, with members in any order and with
\* repetitions, and the undefined one
GroupPool ==
  {None} \cup {Some([name |-> GroupName(4, "g"), member |-> Named(m)]) :
                 m \in Seqs(MemberPool, MaxLen)}

\* integrators of a security group: every combination of a scope and a tag
\* that are configured or empty, under two group names
IntegratorPool ==
  {[ToNsx("a", <<NsxEndpoint("nsx1", "local")>>) EXCEPT
      !.nsx_group_name = n, !.nsx_group_scope = sc, !.nsx_group_tag = t] :
     n \in {"g", "h"}, sc \in {"", "nam"}, t \in {"", "managed"}}

UtilInputs ==
  {[UtilIdle EXCEPT !.fn = "prefixes", !.prefixes = l] : l \in Seqs(PrefixPool, MaxLen)}
  \cup
  {[UtilIdle EXCEPT !.fn = "spec", !.integrator = g, !.prefixes = l] :
     g \in IntegratorPool, l \in Seqs(PrefixPool, MaxLen)}
  \cup
  {[UtilIdle EXCEPT !.fn = "groups", !.existingGroup = a, !.newGroup = b] :
     a \in GroupPool, b \in GroupPool}

UtilInit ==
  /\ Start(World(Production, <<>>, Firewall({}, None, {}, 4), Firewall({}, None, {}, 6), None))
  /\ util \in UtilInputs
  /\ main = [cron |-> TRUE, pc |-> "start", code |-> 0]

\* mapper(prefixes)
CallMapper ==
  /\ util.fn = "prefixes"
  /\ util' = [util EXCEPT !.fn = "mapper", !.list = mapper(util.prefixes)]
  /\ UNCHANGED <<cfg, nam, netbox, fortios, nsxmgr, worker, inv, live, procs, reply, main,
               orphans>>

\* mapper6(prefixes)
CallMapper6 ==
  /\ util.fn = "prefixes"
  /\ util' = [util EXCEPT !.fn = "mapper6", !.list = mapper6(util.prefixes)]
  /\ UNCHANGED <<cfg, nam, netbox, fortios, nsxmgr, worker, inv, live, procs, reply, main,
               orphans>>

\* getAddGrpMemberChanges(existingGroup, newGroup): returns or throws
CallGetAddGrpMemberChanges ==
  /\ util.fn = "groups"
  /\ LET updates == getAddGrpMemberChanges(util.existingGroup, util.newGroup) IN
     util' = [util EXCEPT !.fn = "getAddGrpMemberChanges",
                          !.updates = updates,
                          !.threw = ~IsSome(updates)]
  /\ UNCHANGED <<cfg, nam, netbox, fortios, nsxmgr, worker, inv, live, procs, reply, main,
               orphans>>

\* createSecurityGroup(integrator, prefixes)
CallCreateSecurityGroup ==
  /\ util.fn = "spec"
  /\ util' = [util EXCEPT !.fn = "createSecurityGroup",
                          !.group = Some(createSecurityGroup(util.integrator, util.prefixes))]
  /\ UNCHANGED <<cfg, nam, netbox, fortios, nsxmgr, worker, inv, live, procs, reply, main,
               orphans>>

UtilNext ==
  \/ CallMapper
  \/ CallMapper6
  \/ CallGetAddGrpMemberChanges
  \/ CallCreateSecurityGroup

UtilSpec == UtilInit /\ [][UtilNext]_vars

----------------------------------------------------------------------------
(* Vocabulary of the properties                                             *)

Active(i) == inv[i].st = "active"
Idle == \A i \in Calls : ~Active(i)

\* invocation i is called in this step
Called(i) == inv[i].st = "new" /\ inv'[i].st # "new"

\* invocation i ends in this step
Ended(i) == Active(i) /\ inv'[i].st # "active"

\* the k-th integrator of invocation i is not skipped by the loop
Processed(i, k) ==
  (IsSome(inv[i].integrators[k]) /\ inv[i].integrators[k][1].enabled) \/ cfg.testInt

\* the k-th integrator of invocation i has no IPAM endpoint to configure
Broken(i, k) ==
  ~IsSome(inv[i].integrators[k]) \/ ~IsSome(inv[i].integrators[k][1].netbox_endpoint)

\* the integrators after the current one that the loop will process
Ahead(i) == {k \in DOMAIN inv[i].integrators : k > inv[i].idx /\ Processed(i, k)}

\* the next integrator the loop processes exists and cannot be configured
BrokenAhead(i) ==
  \E k \in Ahead(i) : Broken(i, k) /\ \A m \in Ahead(i) : k <= m

\* the calls of the reconciliation key that the firewall has been asked
Issued(key, ops) == {k \in DOMAIN procs[key].log : procs[key].log[k].op \in ops}

\* Promise.all of invocation i is rejected in this step
Threw(i) ==
  reply' # reply /\ reply'.who = Who(i) /\ reply'.act = "deploy" /\ reply'.out # "ok"

Min(set) == CHOOSE k \in set : \A m \in set : k <= m

\* the firewall endpoints after the current one that the loop will deploy to
EndpointsAhead(i) ==
  LET eps == Integrator(Bundle, i).fortigate_endpoints IN
  {k \in DOMAIN eps : k > inv[i].fwIdx /\ eps[k].endpoint.enabled /\ Len(eps[k].vdoms) > 0}

Mutations == {"addAddress", "addAddressGroup", "updateAddressGroup", "getAddress", "deleteAddress"}

Kinds(handles, kinds) == {h \in handles : h.kind \in kinds}

----------------------------------------------------------------------------
(* Properties                                                               *)

\* C1: at most one run is in progress at a time; a call to work made while an
\* earlier call is still in progress returns 7 in the same step, leaves the
\* worker, its handles, the other invocations, the reconciliations and the
\* targets as they were, so that it issues no call to any collaborator.
C1_SingleFlight ==
  /\ [](Cardinality({i \in Calls : Active(i)}) <= 1)
  /\ [][\A i \in Calls :
          (Called(i) /\ ~Idle) =>
            /\ inv'[i].st = "ret7"
            /\ \A j \in Calls \ {i} : inv'[j] = inv[j]
            /\ UNCHANGED <<worker, live, procs, fortios, nsxmgr>>
            /\ worker'.running]_vars

\* a second call has returned 7 while the first is waiting for the firewall
C1_Witness ==
  /\ inv[1].st = "active" /\ inv[1].pc = "deploy"
  /\ inv[2].st = "ret7"
  /\ reply.out = "ret7"

\* C2: a delete of an address object (IPv4 or IPv6) is issued only right after
\* the fetch of that object's reference count was answered with zero; after a
\* fetch that failed or reported a non-zero count no delete of that name is
\* issued by the reconciliation.
C2_SafeDelete ==
  \A key \in ProcKeys :
    LET log == procs[key].log IN
    \A k \in DOMAIN log :
      /\ log[k].op = "deleteAddress" =>
           /\ k > 1
           /\ log[k - 1].op = "getAddress"
           /\ log[k - 1].arg = log[k].arg
           /\ log[k - 1].res = "zero"
      /\ (log[k].op = "getAddress" /\ log[k].res \in {"rejected", "nonzero", "malformed"}) =>
           \A m \in DOMAIN log : (m > k /\ log[m].op = "deleteAddress") => log[m].arg # log[k].arg

\* a reconciliation has kept one removed object that is still referenced and
\* asked for the delete of another
C2_Witness ==
  \E key \in ProcKeys :
    LET log == procs[key].log IN
    /\ procs[key].pc = "deleteAddress"
    /\ \E k \in DOMAIN log : log[k].op = "getAddress" /\ log[k].res = "nonzero"

\* C3: in a reconciliation, the fetch of a reference count and the delete of
\* an address object are issued only after the update of the group was
\* answered with success.
C3_OnlyAfterUpdate ==
  \A key \in ProcKeys :
    LET log == procs[key].log IN
    \A k \in DOMAIN log :
      log[k].op \in {"getAddress", "deleteAddress"} =>
        \E m \in DOMAIN log :
          m < k /\ log[m].op = "updateAddressGroup" /\ log[m].res = "ok"

\* C4: when a run ends with an error, the running flag is false in the state
\* the caller sees, and the error reaches the caller: a call made without a
\* directory, and a run whose reconciliation threw, end as raised and never
\* with a return value.
C4_ErrorEscapes ==
  [][\A i \in Calls :
       /\ (inv[i].st # "raised" /\ inv'[i].st = "raised") => ~worker'.running
       /\ (Called(i) /\ ~worker.running /\ ~cfg.nms) => inv'[i].st = "raised"
       /\ Threw(i) => (Active(i) /\ inv'[i].st = "raised")
       /\ Ended(i) => inv'[i].st \in {"ret0", "raised"}]_vars

\* a reconciliation threw, the run ended with the error and the flag is clear
C4_Witness ==
  /\ inv[1].st = "raised"
  /\ reply = [act |-> "deploy", who |-> Who(1), out |-> "malformed"]
  /\ ~worker.running

\* C5: once a run has ended with an error, no handle that the run opened is
\* still undisposed.
C5_ReleasedOnError ==
  \A i \in Calls : inv[i].st = "raised" => \A h \in live : h.by # i

\* C6: a run that ends without an error returns 0, isRunning is false in the
\* state the caller sees, and a call made when no run is in progress is
\* accepted rather than answered with 7.
C6_NormalCompletion ==
  [][\A i \in Calls :
       /\ (Ended(i) /\ inv'[i].st # "raised") =>
            (inv'[i].st = "ret0" /\ ~worker'.running)
       /\ (Called(i) /\ Idle) => inv'[i].st # "ret7"]_vars

\* the first run has returned 0 and the second call has been accepted
C6_Witness ==
  /\ inv[1].st = "ret0"
  /\ worker.run_counter = 1
  /\ inv[2].st = "active" /\ inv[2].pc = "getIntegrators"

\* C7: in the state in which work returns 0 the three client fields are empty
\* and no handle is left undisposed.
C7_ReleasedOnReturn ==
  [][\A i \in Calls :
       (Ended(i) /\ inv'[i].st = "ret0") =>
         /\ worker'.ipam = 0 /\ worker'.firewall = 0 /\ worker'.nsx = 0
         /\ live' = {}]_vars

\* a run that used all three kinds of handle has returned 0 with none left
C7_Witness ==
  /\ inv[1].st = "ret0"
  /\ reply.act = "patchGroup" /\ reply.who = Who(1)
  /\ Len(nam) = 1 /\ nam[1].create_fg_group /\ Len(nam[1].fortigate_endpoints) > 0
  /\ live = {}

\* C8: a run that got past the directory lookup ends with the return value 0
\* whatever calls to the IPAM, the firewalls and the NSX managers were
\* rejected; it ends with an error only when a reference-count answer could
\* not be read or when the next integrator has no IPAM endpoint.
C8_ZeroDespiteRejections ==
  [][\A i \in Calls :
       (Ended(i) /\ inv[i].pc # "getIntegrators") =>
         \/ inv'[i].st = "ret0"
         \/ Threw(i) /\ reply'.out = "malformed"
         \/ BrokenAhead(i)]_vars

\* the last call of a run, the replace of a security group, was rejected and
\* the run returned 0
C8_Witness ==
  /\ inv[1].st = "ret0"
  /\ reply = [act |-> "patchGroup", who |-> Who(1), out |-> "rejected"]

\* C9: a reconciliation has issued a create, update, reference-count or delete
\* call only if both of its snapshot fetches succeeded. A reconciliation whose
\* group fetch failed returns at the answer of its address fetch without
\* raising; the reconciliations beside it are left as they are, and when it is
\* the last one the run goes on with the next endpoint, the NSX managers or
\* the next integrator.
C9_SnapshotFailure ==
  /\ [](\A key \in ProcKeys :
          Issued(key, Mutations) # {} =>
            /\ procs[key].log[1].op = "getGroups" /\ procs[key].log[1].res = "ok"
            /\ procs[key].log[2].op = "getAddresses" /\ procs[key].log[2].res = "ok")
  /\ [][\A key \in ProcKeys :
          LET i == key[1]
              beside == {k \in ProcKeys : k[1] = i /\ k # key}
              last == \A k \in beside : procs[k].pc \in {"idle", "done"}
          IN (/\ procs[key].pc = "getAddresses"
              /\ procs[key].log[1].res = "rejected"
              /\ procs'[key] # procs[key]
              /\ Active(i)) =>
               /\ procs'[key].pc \in {"done", "idle", "getGroups"}
               /\ procs'[key].pc = "getGroups" => (last /\ EndpointsAhead(i) # {})
               /\ \A k \in DOMAIN procs'[key].log : procs'[key].log[k].op \notin Mutations
               /\ ~Threw(i)
               /\ ~last => (\A k \in beside : procs'[k] = procs[k]) /\ inv'[i] = inv[i]
               /\ last =>
                    IF EndpointsAhead(i) # {}
                    THEN /\ inv'[i].pc = "deploy"
                         /\ inv'[i].fwIdx = Min(EndpointsAhead(i))
                         /\ \E k \in ProcKeys : k[1] = i /\ procs'[k].pc = "getGroups"
                    ELSE \/ inv'[i].st = "active" /\ inv'[i].pc \in {"getGroup", "prefixes"}
                         \/ inv'[i].st = "ret0"
                         \/ BrokenAhead(i)]_vars

\* the IPv4 reconciliation of a scope has lost its group fetch while the IPv6
\* reconciliation of the same scope is creating its group
C9_Witness ==
  /\ procs[<<1, "root", 4>>].pc = "getAddresses"
  /\ procs[<<1, "root", 4>>].log[1].res = "rejected"
  /\ procs[<<1, "root", 6>>].pc = "addAddressGroup"

\* C10: when the prefix fetch of an integrator is rejected, the run opens no
\* firewall or NSX handle and issues no call to a firewall or an NSX manager
\* for it, and goes on with the next integrator that is not skipped.
C10_PrefixFailure ==
  [][\A i \in Calls :
       (Active(i) /\ inv[i].pc = "prefixes" /\ inv'[i] # inv[i] /\ reply'.out = "rejected") =>
         /\ Kinds(live', {"firewall", "nsx"}) \subseteq live
         /\ worker'.firewall \in {worker.firewall, 0}
         /\ worker'.nsx \in {worker.nsx, 0}
         /\ UNCHANGED <<procs, fortios, nsxmgr>>
         /\ IF Ahead(i) = {} THEN inv'[i].st = "ret0"
            ELSE IF Broken(i, Min(Ahead(i))) THEN inv'[i].st = "raised"
            ELSE /\ inv'[i].st = "active" /\ inv'[i].pc = "prefixes"
                 /\ inv'[i].idx = Min(Ahead(i))]_vars

\* the prefix fetch of the first integrator was rejected and the run is
\* fetching the prefixes of the second
C10_Witness ==
  /\ reply = [act |-> "getPrefixes", who |-> Who(1), out |-> "rejected"]
  /\ inv[1].st = "active" /\ inv[1].pc = "prefixes" /\ inv[1].idx = 2
  /\ worker.firewall = 0 /\ worker.nsx = 0

\* C11: outside diagnostic mode (development mode with a designated test
\* integrator) the integrator a run is processing, for which it has opened an
\* IPAM handle and issued the prefix fetch, is an enabled one.
C11_DisabledSkipped ==
  \A i \in Calls :
    (/\ Active(i)
     /\ inv[i].pc \in {"prefixes", "deploy", "getGroup", "patchGroup"}
     /\ ~(cfg.devMode /\ cfg.testInt)) =>
      Integrator(Bundle, i).enabled

\* C12: a run whose directory lookup is rejected ends with an error in the
\* step of that answer.
C12_DirectoryFailure ==
  [][\A i \in Calls :
       (/\ Active(i) /\ inv[i].pc = "getIntegrators"
        /\ inv'[i] # inv[i]
        /\ reply'.out = "rejected") =>
         inv'[i].st = "raised"]_vars

\* run j returned 0 and run i is the next call that was accepted
Previous(i, j) ==
  /\ j < i
  /\ inv[j].st = "ret0"
  /\ \A k \in (j + 1)..(i - 1) : inv[k].st = "ret7"

\* run i is waiting for the answer to a create, update, delete or patch call
Mutating(i) ==
  \/ inv[i].pc = "patchGroup"
  \/ \E key \in ProcKeys :
       /\ key[1] = i
       /\ procs[key].pc \in {"addAddress", "addAddressGroup", "updateAddressGroup", "deleteAddress"}

\* run i follows a run j of the same priority class in which every
\* collaborator call succeeded, and no run has left reconciliations behind
AfterCleanRun(i, j) ==
  /\ Active(i) /\ Previous(i, j)
  /\ inv[j].clean /\ inv[j].priority = inv[i].priority
  /\ \A k \in Calls : inv[k].st # "raised"

\* C13: the run after a run in which every call succeeded issues no address
\* create, group create or update, delete or security-group patch.
C13_Idempotent ==
  \A i, j \in Calls : AfterCleanRun(i, j) => ~Mutating(i)

----------------------------------------------------------------------------
(* Properties of the helpers, under UtilSpec                                *)

Diffed == util.fn = "getAddGrpMemberChanges"
BothDefined == IsSome(util.existingGroup) /\ IsSome(util.newGroup)
NamesOf(group) == {group[1].member[k].name : k \in DOMAIN group[1].member}

\* C14: for two defined groups getAddGrpMemberChanges returns, as sets, the
\* names of desired.member that are not in existing.member as added and the
\* names of existing.member that are not in desired.member as removed; both
\* are empty when the two groups have the same member names.
C14_GroupDiff ==
  (Diffed /\ BothDefined) =>
    /\ ~util.threw /\ IsSome(util.updates)
    /\ Range(util.updates[1].added) = NamesOf(util.newGroup) \ NamesOf(util.existingGroup)
    /\ Range(util.updates[1].removed) = NamesOf(util.existingGroup) \ NamesOf(util.newGroup)
    /\ NamesOf(util.newGroup) = NamesOf(util.existingGroup) =>
         (util.updates[1].added = <<>> /\ util.updates[1].removed = <<>>)

\* a diff with a name added and a name removed
C14_Witness ==
  /\ Diffed /\ BothDefined
  /\ Len(util.updates[1].added) > 0 /\ Len(util.updates[1].removed) > 0

\* C15: for two defined groups, the added of the diff is the removed of the
\* diff with the arguments exchanged, and the removed is its added.
C15_Antisymmetric ==
  (Diffed /\ BothDefined) =>
    LET swapped == getAddGrpMemberChanges(util.newGroup, util.existingGroup) IN
    /\ IsSome(util.updates) /\ IsSome(swapped)
    /\ util.updates[1].added = swapped[1].removed
    /\ util.updates[1].removed = swapped[1].added

\* a diff of two groups that share a member and differ in another
C15_Witness ==
  /\ Diffed /\ BothDefined
  /\ NamesOf(util.existingGroup) \cap NamesOf(util.newGroup) # {}
  /\ Len(util.updates[1].added) > 0 /\ util.updates[1].removed = <<>>

\* C16: when the existing group or the desired group is undefined,
\* getAddGrpMemberChanges throws and returns no diff.
C16_UndefinedGroup ==
  (Diffed /\ ~BothDefined) => (util.threw /\ util.updates = None)

\* the call threw on an undefined desired group, the existing one defined
C16_Witness ==
  /\ Diffed /\ IsSome(util.existingGroup) /\ ~IsSome(util.newGroup)
  /\ util.threw

Projected == util.fn \in {"mapper", "mapper6"}
Selected == IF util.fn = "mapper" THEN 4 ELSE 6
\* the prefixes of the call that belong to the family of the helper
Matching == SelectSeq(util.prefixes, LAMBDA p : p.family = Selected)

\* C17: mapper and mapper6 return one object for every prefix of their
\* family, in the order of the input and named after it, and none for the
\* other prefixes: a list as long as the prefixes of the family, empty when
\* there are none.
C17_ProjectionFilter ==
  Projected =>
    /\ Len(util.list) = Len(Matching)
    /\ \A k \in DOMAIN util.list : util.list[k].name = NameOf(Matching[k])
    /\ (util.prefixes = <<>> \/ \A k \in DOMAIN util.prefixes : util.prefixes[k].family # Selected)
         => util.list = <<>>

\* mapper kept one of two prefixes
C17_Witness ==
  /\ util.fn = "mapper"
  /\ Len(util.prefixes) = 2 /\ Len(util.list) = 1
  /\ util.prefixes[1].family = 6

\* the number of leading one bits of an octet of a mask, -1 for other octets
OctetBits(o) ==
  CASE o = 0 -> 0 [] o = 128 -> 1 [] o = 192 -> 2 [] o = 224 -> 3 [] o = 240 -> 4
    [] o = 248 -> 5 [] o = 252 -> 6 [] o = 254 -> 7 [] o = 255 -> 8 [] OTHER -> -1

\* m is the dotted mask of the prefix length len
IsMaskOf(m, len) ==
  /\ Len(m) = 4
  /\ \A k \in 1..4 : OctetBits(m[k]) >= 0
  /\ OctetBits(m[1]) + OctetBits(m[2]) + OctetBits(m[3]) + OctetBits(m[4]) = len
  /\ \A k \in 1..3 : m[k] < 255 => m[k + 1] = 0

\* C18: an object of mapper is named netbox_ + the CIDR text and its subnet is
\* the network address followed by the dotted mask of the prefix length (/24
\* gives 255.255.255.0, /8 gives 255.0.0.0); an object of mapper6 is named
\* netbox6_ + the display string and carries the CIDR string as it is.
C18_NameAndPayload ==
  Projected =>
    \A k \in DOMAIN util.list :
      LET p == Matching[k]
          o == util.list[k]
      IN IF util.fn = "mapper"
         THEN /\ o.name = <<"netbox_", p.prefix>>
              /\ o.subnet[1] = p.prefix.net
              /\ IsMaskOf(o.subnet[2], p.prefix.len)
              /\ p.prefix.len = 24 => o.subnet[2] = <<255, 255, 255, 0>>
              /\ p.prefix.len = 8 => o.subnet[2] = <<255, 0, 0, 0>>
         ELSE /\ o.name = <<"netbox6_", p.display>>
              /\ o.ip6 = p.prefix

\* mapper has emitted the /25 prefix with the mask 255.255.255.128
C18_Witness ==
  /\ util.fn = "mapper"
  /\ \E k \in DOMAIN util.list :
       util.list[k].subnet = <<"172.16.5.128", <<255, 255, 255, 128>>>>

\* the lowercase form of the labels of the checked prefixes
Lowered(label) ==
  CASE label = VlanProduction -> <<"p", "r", "o", "d", "u", "c", "t", "i", "o", "n">>
    [] label = VlanDMZ -> <<"d", "m", "z">>
    [] label = VlanLab -> <<"l", "a", "b">>
    [] label = VlanIPv6Network -> <<"i", "p", "v", "6", "-", "n", "e", "t", "w", "o", "r", "k">>

\* C19: the comment of an object of mapper or mapper6 is the VLAN name in
\* lowercase when the prefix has a VLAN with a non-empty name, and is absent
\* (not an empty string) otherwise.
C19_Comment ==
  Projected =>
    \A k \in DOMAIN util.list :
      LET p == Matching[k] IN
      IF IsSome(p.vlan) /\ p.vlan[1].name # <<>>
      THEN util.list[k].comment = Some(Lowered(p.vlan[1].name))
      ELSE util.list[k].comment = None

\* mapper6 has emitted a comment in lowercase and an object without comment
C19_Witness ==
  /\ util.fn = "mapper6"
  /\ Len(util.list) = 2
  /\ util.list[1].comment = Some(Lowered(VlanIPv6Network)) /\ util.list[2].comment = None

----------------------------------------------------------------------------
(* Properties of the NSX reconciler, under Spec                             *)

\* the values of a security group: the IP lists of all its expressions
Observed(group) ==
  IF ~IsSome(group.expression) THEN {}
  ELSE UNION {Range(group.expression[1][k].ip_addresses) : k \in DOMAIN group.expression[1]}

\* the prefix values run i wants in its security group
Desired(i) == {inv[i].netboxPrefixes[k].prefix : k \in DOMAIN inv[i].netboxPrefixes}

\* C20: when the lookup of the security group is answered with the group,
\* the run issues a patch for that endpoint, carrying the group name and the
\* complete desired values, if the values of the group differ as a set from
\* the desired prefix values, and issues no patch if they are equal; the
\* answer to a patch is never followed by another patch.
C20_ReplaceWhenDifferent ==
  [][\A i \in Calls :
       /\ (Active(i) /\ inv[i].pc = "getGroup" /\ inv'[i] # inv[i] /\ reply'.out = "ok") =>
            IF Observed(nsxmgr[NsxHost(i)][1]) # Desired(i)
            THEN /\ inv'[i].st = "active" /\ inv'[i].pc = "patchGroup"
                 /\ inv'[i].idx = inv[i].idx /\ inv'[i].nsxIdx = inv[i].nsxIdx
                 /\ IsSome(inv'[i].securityGroup)
                 /\ inv'[i].securityGroup[1].display_name =
                      <<"nsg-", Integrator(Bundle, i).nsx_group_name>>
                 /\ Observed(inv'[i].securityGroup[1]) = Desired(i)
            ELSE inv'[i].pc # "patchGroup"
       /\ (Active(i) /\ inv[i].pc = "patchGroup" /\ inv'[i] # inv[i]) =>
            inv'[i].pc # "patchGroup"]_vars

\* the group exists with other values than the desired ones and the run is
\* waiting for the answer to its patch
C20_Witness ==
  /\ inv[1].st = "active" /\ inv[1].pc = "patchGroup"
  /\ reply = [act |-> "getGroup", who |-> Who(1), out |-> "ok"]
  /\ Observed(nsxmgr["nsx1"][1]) # Desired(1)

\* the NSX endpoints of the current integrator after the current one
NsxAhead(i) ==
  LET eps == Integrator(Bundle, i).nsx_endpoints[1] IN
  {k \in DOMAIN eps : k > inv[i].nsxIdx}

\* C21: when the lookup of the security group is rejected (the group is not
\* there, or the request failed), the run issues a patch for that endpoint
\* that carries the group name and the complete desired values, whatever the
\* platform holds; the answer to that patch, success or failure, is followed
\* by no second patch and by no error: the run goes on with the next
\* endpoint, and after the last endpoint with the next integrator.
C21_CreateWhenNotFound ==
  [][\A i \in Calls :
       /\ (Active(i) /\ inv[i].pc = "getGroup" /\ inv'[i] # inv[i] /\ reply'.out = "rejected") =>
            /\ inv'[i].st = "active" /\ inv'[i].pc = "patchGroup"
            /\ inv'[i].idx = inv[i].idx /\ inv'[i].nsxIdx = inv[i].nsxIdx
            /\ IsSome(inv'[i].securityGroup)
            /\ inv'[i].securityGroup[1].display_name =
                 <<"nsg-", Integrator(Bundle, i).nsx_group_name>>
            /\ Observed(inv'[i].securityGroup[1]) = Desired(i)
            /\ IsSome(inv'[i].securityGroup[1].expression) <=> inv[i].netboxPrefixes # <<>>
            /\ nsxmgr' = nsxmgr
       /\ (Active(i) /\ inv[i].pc = "patchGroup" /\ inv'[i] # inv[i]) =>
            /\ inv'[i].pc # "patchGroup"
            /\ inv'[i].st = "raised" => (NsxAhead(i) = {} /\ BrokenAhead(i))
            /\ NsxAhead(i) # {} =>
                 /\ inv'[i].st = "active" /\ inv'[i].pc = "getGroup"
                 /\ inv'[i].nsxIdx = inv[i].nsxIdx + 1]_vars

\* the lookup of a group that is not on the platform was rejected, the
\* create was rejected too, and the run has returned 0
C21_Witness ==
  /\ inv[1].st = "ret0"
  /\ ~IsSome(nsxmgr["nsx1"])
  /\ Len(nam) = 1 /\ nam[1].create_nsx_group
  /\ reply = [act |-> "patchGroup", who |-> Who(1), out |-> "rejected"]

----------------------------------------------------------------------------
(* Properties of the entry point, under LiveSpec                            *)

OneShot == ~main.cron

\* C22: without CRON_MODE "true" the process calls work() once, from start()
\* and never again; when that call has returned it sets the exit code 0 and
\* when it has raised the exit code 1; the call is made, and once it has
\* returned or raised the process exits with that code; after the exit
\* nothing happens.
C22_OneShot ==
  /\ [](OneShot => \A i \in Calls \ {1} : inv[i].st = "new")
  /\ [][OneShot =>
          /\ \A i \in Calls : Called(i) => (i = 1 /\ main.pc = "start")
          /\ (main.pc = "start" /\ main'.pc # "start") => Called(1)
          /\ (inv[1].st \in {"new", "active"} /\ inv'[1].st \notin {"new", "active"}) =>
               /\ main'.pc = "timer"
               /\ inv'[1].st \in {"ret0", "raised"}
               /\ main'.code = IF inv'[1].st = "ret0" THEN 0 ELSE 1
          /\ (main.pc # "timer" /\ main'.pc = "timer") => inv[1].st \in {"new", "active"}
          /\ (main.pc = "timer" /\ main' # main) => main' = [main EXCEPT !.pc = "exited"]
          /\ main.pc = "exited" => UNCHANGED vars]_vars
  /\ (OneShot /\ main.pc = "start") ~> (inv[1].st # "new")
  /\ (OneShot /\ inv[1].st \in {"ret0", "raised"}) ~> (main.pc = "exited")

\* the one run raised because a reference-count answer could not be read, and
\* the process has exited with code 1
C22_Witness ==
  /\ OneShot /\ main.pc = "exited" /\ main.code = 1
  /\ inv[1].st = "raised"
  /\ reply = [act |-> "deploy", who |-> Who(1), out |-> "malformed"]

----------------------------------------------------------------------------
(* Properties of the FortiOS reconciler, under Spec                         *)

GroupCalls == {"addAddressGroup", "updateAddressGroup"}

\* C23: in the calls of one reconciliation, every create of an address
\* object is answered before the group create or the group update is issued
\* and none is issued after it; every reference-count fetch and every delete
\* comes after the answer to the group update and is for a name of the
\* removed list of that update's diff.
C23_Ordering ==
  \A key \in ProcKeys :
    LET log == procs[key].log IN
    \A k \in DOMAIN log :
      /\ log[k].op \in GroupCalls =>
           \A m \in DOMAIN log :
             log[m].op = "addAddress" => (m < k /\ log[m].res # "pending")
      /\ log[k].op \in {"getAddress", "deleteAddress"} =>
           /\ \E m \in DOMAIN log :
                m < k /\ log[m].op = "updateAddressGroup" /\ log[m].res # "pending"
           /\ log[k].arg \in Range(procs[key].removed)

\* a reconciliation has created an address object, updated the group and is
\* deleting a former member
C23_Witness ==
  \E key \in ProcKeys :
    LET log == procs[key].log IN
    /\ procs[key].pc = "deleteAddress"
    /\ \E k \in DOMAIN log : log[k].op = "addAddress"

----------------------------------------------------------------------------
(* Properties of the handles, under Spec                                    *)

HandleKinds == {"ipam", "firewall", "nsx"}

\* C24: at every point of every sequence of runs, runs that end with an error
\* included, at most one undisposed handle of each kind exists, and it is the
\* one the worker's field of that kind holds; a step that opens a handle of a
\* kind leaves no earlier handle of that kind undisposed.
C24_OneHandlePerKind ==
  /\ [](\A kind \in HandleKinds :
          /\ Cardinality(Kinds(live, {kind})) <= 1
          /\ \A h \in Kinds(live, {kind}) : worker[kind] = h.id)
  /\ [][\A h \in live' \ live :
          \A g \in live : g.kind = h.kind => g \notin live']_vars

\* the first run has returned; the second run is at its second integrator,
\* with the IPAM handle it opened for it and the firewall handle it opened
\* for the first
C24_Witness ==
  /\ inv[1].st = "ret0" /\ inv[2].st = "active" /\ inv[2].idx = 2
  /\ \E h \in live : h.by = 2 /\ h.kind = "ipam"
  /\ \E g \in live : g.by = 2 /\ g.kind = "firewall"

----------------------------------------------------------------------------
(* Properties of the group step of the FortiOS reconciler, under Spec       *)

\* no element of the sequence occurs twice
NoRepeat(seq) == \A a, b \in DOMAIN seq : seq[a] = seq[b] => a = b

\* the names of the desired objects of a reconciliation
DesiredNames(key) == {procs[key].prefixes[k].name : k \in DOMAIN procs[key].prefixes}

\* C25: the member list of a group create call holds every desired object
\* name, and holds it once.
C25_CreateDeduplicated ==
  \A key \in ProcKeys :
    LET log == procs[key].log IN
    \A k \in DOMAIN log :
      log[k].op = "addAddressGroup" =>
        /\ Range(log[k].arg.member) = DesiredNames(key)
        /\ NoRepeat(log[k].arg.member)


\* the reconciliation manages a group and found it in its snapshot
Managed(p, family) ==
  /\ p.create_fg_group /\ p.fg_group_name # ""
  /\ IsSome(p.groups)
  /\ FindIndex(p.groups[1], GroupName(family, p.fg_group_name)) # 0

\* the member names of the managed group in the snapshot
ExistingNames(p, family) ==
  LET group == p.groups[1][FindIndex(p.groups[1], GroupName(family, p.fg_group_name))]
  IN {group.member[k].name : k \in DOMAIN group.member}

UpdateCalls == {"updateAddressGroup", "getAddress", "deleteAddress"}

\* C26: a reconciliation that found its managed group in the snapshot issues
\* at most one group update, whose member list holds every desired name once;
\* when the members of the group are the desired names it issues no group
\* update, no reference-count fetch and no delete; when they are not, the
\* group update is what it issues once its address creates are answered.
C26_UpdateWhenDifferent ==
  /\ [](\A key \in ProcKeys :
          LET p == procs[key] IN
          Managed(p, key[3]) =>
            /\ Cardinality(Issued(key, {"updateAddressGroup"})) <= 1
            /\ \A k \in Issued(key, {"updateAddressGroup"}) :
                 /\ Range(p.log[k].arg.member) = DesiredNames(key)
                 /\ NoRepeat(p.log[k].arg.member)
            /\ ExistingNames(p, key[3]) = DesiredNames(key) => Issued(key, UpdateCalls) = {}
            /\ Issued(key, {"addAddressGroup"}) = {})
  /\ [][\A key \in ProcKeys :
          LET p == procs[key]
              i == key[1]
          IN (/\ p.pc \in {"getAddresses", "addAddress"}
              /\ procs'[key] # p /\ procs'[key].pc # "addAddress"
              /\ Managed(p, key[3])
              /\ ExistingNames(p, key[3]) # DesiredNames(key)
              \* the snapshot of the addresses was answered
              /\ p.pc = "getAddresses" =>
                   (Active(i) /\ inv[i].clean /\ inv'[i].st = "active" /\ inv'[i].clean)) =>
               /\ procs'[key].pc = "updateAddressGroup"
               /\ Cardinality({k \in DOMAIN procs'[key].log :
                                 procs'[key].log[k].op = "updateAddressGroup"}) = 1]_vars

\* the desired list names 10.0.0.0/24 twice, the group of the snapshot holds a
\* member that is not desired, and the update of the group has been issued
C26_Witness ==
  \E key \in ProcKeys :
    LET p == procs[key] IN
    /\ p.pc = "updateAddressGroup"
    /\ Len(p.prefixes) = 2 /\ p.prefixes[1].name = p.prefixes[2].name
    /\ p.removed # <<>>


\* C27: a step of the reconciliation of a scope (the host of its handle, its
\* vdom, its address family) leaves the objects of every other scope, of the
\* same and of any other firewall, as they are; the group and address
\* snapshots it takes are those of its own scope, and so is the reference
\* count that lets it delete.
C27_ScopeIsolation ==
  [][\A key \in ProcKeys :
       LET p == procs[key]
           scope == <<p.host, key[2], key[3]>>
       IN (procs'[key] # p /\ p.pc \notin {"idle", "done"}) =>
            /\ \A cell \in DOMAIN fortios : cell # scope => fortios'[cell] = fortios[cell]
            /\ (p.pc = "getGroups" /\ IsSome(procs'[key].groups)) =>
                 procs'[key].groups[1] = GroupsOf(scope)
            /\ (p.pc = "getAddresses" /\ IsSome(procs'[key].addresses)) =>
                 procs'[key].addresses[1] = AddressesOf(scope)
            /\ (p.pc = "getAddress" /\ procs'[key].pc = "deleteAddress") =>
                 QRef(scope, p.removed[p.j]) = 0]_vars

\* the reconciliation of vdom dmz is deleting a former member of its group
\* while vdom root of the same firewall, which never held that object, has
\* got its group
C27_Witness ==
  /\ procs[<<1, "dmz", 4>>].pc = "deleteAddress"
  /\ GroupNames(<<"fw1", "root", 4>>) # {}
  /\ OldA \notin fortios[<<"fw1", "root", 4>>].addresses

----------------------------------------------------------------------------
(* Properties of the loop over the integrators, under Spec                  *)

\* the reconciliations of run i that have not returned
InProgress(i) == {key \in ProcKeys : key[1] = i /\ procs[key].pc \notin {"idle", "done"}}

\* C28: while a run has reconciliations in progress it waits for them and for
\* nothing else: it has no IPAM fetch and no security-platform call
\* outstanding; it moves to another integrator only in a step that leaves
\* none of its reconciliations in progress, and only to a later one.
C28_OneIntegratorAtATime ==
  /\ [](\A i \in Calls : (Active(i) /\ InProgress(i) # {}) => inv[i].pc = "deploy")
  /\ [][\A i \in Calls :
          (Active(i) /\ inv'[i].st = "active" /\ inv'[i].idx # inv[i].idx) =>
            /\ inv'[i].idx > inv[i].idx
            /\ inv[i].pc \in {"getIntegrators", "prefixes"} \/ inv'[i].pc = "prefixes"
            /\ \A key \in ProcKeys : key[1] = i => procs'[key].pc = "idle"]_vars

\* the reconciliations of the first integrator have returned and those of
\* the second are in progress
C28_Witness ==
  /\ inv[1].st = "active" /\ inv[1].idx = 2 /\ inv[1].pc = "deploy"
  /\ InProgress(1) # {}

----------------------------------------------------------------------------
(* Properties of the calls of a reconciliation, under Spec                  *)

\* the object a call is about
NameOfCall(c) == IF c.op \in GroupCalls THEN c.arg.name ELSE c.arg

\* C29: a reconciliation issues each address create, group create, group
\* update, reference-count fetch and delete at most once for an object name.
C29_NoRetry ==
  \A key \in ProcKeys :
    LET log == procs[key].log IN
    \A k, m \in DOMAIN log :
      (/\ log[k].op \in Mutations
       /\ log[k].op = log[m].op
       /\ NameOfCall(log[k]) = NameOfCall(log[m])) => k = m


\* the reconciliation key issues a reference-count fetch or a delete of the
\* object n in this step
Asks(key, n) ==
  /\ procs'[key] # procs[key]
  /\ procs'[key].pc \in {"getAddress", "deleteAddress"}
  /\ procs'[key].log[Len(procs'[key].log)] \in
       {Call("getAddress", n), Call("deleteAddress", n)}

\* later runs leave the object of the history entry o alone: none of their
\* reconciliations in the scope issues a reference-count fetch or a delete
\* of it in this step, and the step does not take it off the firewall
LeftAlone(o) ==
  /\ \A key \in ProcKeys :
       (key[1] > o[3] /\ Cell(key) = o[1]) => ~Asks(key, o[2])
  /\ o[2] \in fortios[o[1]].addresses => o[2] \in fortios'[o[1]].addresses

ManagesIn(g, cell) ==
  /\ g.create_fg_group /\ g.fg_group_name # ""
  /\ \E k \in DOMAIN g.fortigate_endpoints :
       LET e == g.fortigate_endpoints[k] IN
       /\ e.endpoint.host = cell[1] /\ e.endpoint.enabled
       /\ \E v \in DOMAIN e.vdoms : e.vdoms[v] = cell[2]

\* the names of the address objects the query of the integrator g asks for
\* in the family of the scope
DesiredIn(g, cell) ==
  {NameOf(netbox[g.query][k]) :
     k \in {m \in DOMAIN netbox[g.query] : netbox[g.query][m].family = cell[3]}}

\* an integrator of the directory manages the group of the history entry o
\* in its scope and has the object in its desired state
AddedBack(o) ==
  \E a \in DOMAIN nam :
    /\ ManagesIn(nam[a], o[1]) /\ nam[a].fg_group_name = o[4]
    /\ o[2] \in DesiredIn(nam[a], o[1])

----------------------------------------------------------------------------
(* Properties of the create loop of the FortiOS reconciler, under Spec      *)

\* the desired names, in order, that the address snapshot does not hold
Absent(p) ==
  SelectSeq(MapName(p.prefixes),
            LAMBDA n : \A k \in DOMAIN p.addresses[1] : p.addresses[1][k].name # n)

\* the names of the address creates the reconciliation has issued, in order
Created(p) ==
  LET creates == SelectSeq(p.log, LAMBDA c : c.op = "addAddress")
  IN [k \in DOMAIN creates |-> creates[k].arg]

\* C31: a reconciliation with both snapshots issues its address creates in
\* the order of the desired objects whose names the address snapshot lacks,
\* one for each of them whatever the earlier creates were answered; it has
\* issued all of them once it is past the create loop, and the answer to the
\* last of them, success or failure, is followed by the group step.
C31_CreateEveryAbsent ==
  /\ [](\A key \in ProcKeys :
          LET p == procs[key] IN
          (IsSome(p.groups) /\ IsSome(p.addresses)) =>
            /\ Len(Created(p)) <= Len(Absent(p))
            /\ Created(p) = SubSeq(Absent(p), 1, Len(Created(p)))
            /\ p.pc # "addAddress" => Created(p) = Absent(p))
  /\ [][\A key \in ProcKeys :
          LET p == procs[key] IN
          (/\ p.pc = "addAddress" /\ procs'[key] # p
           /\ Created(p) = Absent(p)
           /\ p.create_fg_group /\ p.fg_group_name # "") =>
            IF ~Managed(p, key[3]) THEN procs'[key].pc = "addAddressGroup"
            ELSE IF ExistingNames(p, key[3]) # DesiredNames(key)
            THEN procs'[key].pc = "updateAddressGroup"
            ELSE procs'[key].pc \in {"done", "idle", "getGroups"}]_vars

\* the first of two creates was rejected, the second was issued all the same
\* and the reconciliation is creating its group
C31_Witness ==
  \E key \in ProcKeys :
    LET p == procs[key] IN
    /\ p.pc = "addAddressGroup"
    /\ Len(Created(p)) = 2 /\ Created(p)[1] # Created(p)[2]
    /\ \E k \in DOMAIN p.log : p.log[k].op = "addAddress" /\ p.log[k].res = "rejected"

----------------------------------------------------------------------------
(* Properties of the targets of an integrator, under Spec                   *)

\* the integrator run i is processing after the step
IntegratorNext(i) == inv'[i].integrators[inv'[i].idx][1]

WantsFirewall(integrator) ==
  integrator.create_fg_group /\ Len(integrator.fortigate_endpoints) > 0

WantsNsx(integrator) ==
  integrator.create_nsx_group /\ IsSome(integrator.nsx_endpoints)

\* C32: a run waits for firewall reconciliations only for an integrator that
\* asks for a firewall group and declares a firewall endpoint, and for a
\* security-platform call only for an integrator that asks for a security
\* group and declares security-platform endpoints; a step that opens a
\* firewall or a security-platform handle is a step of a run that goes on
\* with such an integrator; the desired security group stays the one built
\* before the first endpoint until the last endpoint is done.
C32_TargetGating ==
  /\ [](\A i \in Calls :
          Active(i) =>
            /\ (inv[i].pc = "deploy" \/ InProgress(i) # {}) => WantsFirewall(Integrator(Bundle, i))
            /\ inv[i].pc \in {"getGroup", "patchGroup"} =>
                 (WantsNsx(Integrator(Bundle, i)) /\ IsSome(inv[i].securityGroup)))
  /\ [][/\ ((worker'.firewall # worker.firewall /\ worker'.firewall # 0) =>
            (\E i \in Calls :
              /\ inv'[i].st = "active" /\ inv'[i].pc = "deploy"
              /\ WantsFirewall(IntegratorNext(i))))
         /\ ((worker'.nsx # worker.nsx /\ worker'.nsx # 0) =>
            (\E i \in Calls :
              /\ inv'[i].st = "active" /\ inv'[i].pc = "getGroup"
              /\ WantsNsx(IntegratorNext(i))))
         /\ \A i \in Calls :
              (/\ Active(i) /\ inv[i].pc \in {"getGroup", "patchGroup"}
               /\ inv'[i].st = "active" /\ inv'[i].pc \in {"getGroup", "patchGroup"}
               /\ inv'[i].idx = inv[i].idx) =>
                inv'[i].securityGroup = inv[i].securityGroup]_vars

\* the first integrator declares a firewall endpoint without asking for a
\* firewall group: no firewall handle has been opened and the run is at the
\* security platform
C32_Witness ==
  /\ inv[1].st = "active" /\ inv[1].pc = "getGroup" /\ inv[1].idx = 1
  /\ ~Integrator(Bundle, 1).create_fg_group
  /\ Len(Integrator(Bundle, 1).fortigate_endpoints) > 0
  /\ worker.firewall = 0

----------------------------------------------------------------------------
(* Properties of createSecurityGroup, under UtilSpec                        *)

Built == util.fn = "createSecurityGroup"

Tagged == util.integrator.nsx_group_scope # "" /\ util.integrator.nsx_group_tag # ""

\* C33: the group createSecurityGroup returns is named "nsg-" followed by
\* the integrator's group name and has a description; it has one tag, the
\* configured scope and tag, when both are configured and no tag otherwise;
\* it has one expression, holding the prefix strings in the order of the
\* prefixes, when there is a prefix and no expression field when there is
\* none.
C33_DesiredSecurityGroup ==
  Built =>
    LET group == util.group[1] IN
    /\ group.display_name = <<"nsg-", util.integrator.nsx_group_name>>
    /\ group.description # ""
    /\ IF Tagged
       THEN group.tags = <<[scope |-> util.integrator.nsx_group_scope,
                            tag |-> util.integrator.nsx_group_tag]>>
       ELSE group.tags = <<>>
    /\ IF util.prefixes # <<>>
       THEN /\ IsSome(group.expression)
            /\ Len(group.expression[1]) = 1
            /\ group.expression[1][1].ip_addresses =
                 [k \in DOMAIN util.prefixes |-> util.prefixes[k].prefix]
       ELSE group.expression = None

\* no prefix, a scope without a tag: neither an expression nor a tag
C33_Witness ==
  /\ Built /\ util.prefixes = <<>>
  /\ util.integrator.nsx_group_scope # "" /\ util.integrator.nsx_group_tag = ""
  /\ util.group[1].expression = None /\ util.group[1].tags = <<>>

----------------------------------------------------------------------------
(* Properties of the end of a run, under Spec                               *)

\* C34: once work() has returned or raised, and until the invocation is
\* accepted again, none of the scope reconciliations it started is still
\* waiting for an answer or about to issue a call.
C34_NothingOutstandingAfterEnd ==
  \A i \in Calls : ~Active(i) => InProgress(i) = {}

----------------------------------------------------------------------------
(* Properties of the calls of a scope reconciliation, under Spec            *)

Deletes(key) == {k \in DOMAIN procs[key].log : procs[key].log[k].op = "deleteAddress"}

\* C35: a delete a reconciliation has issued is for a name that is a member
\* of the managed group in the reconciliation's snapshot and is the name of
\* none of its desired objects.
C35_DeleteOnlyFormerMembers ==
  \A key \in ProcKeys :
    \A k \in Deletes(key) :
      /\ Managed(procs[key], key[3])
      /\ procs[key].log[k].arg \in ExistingNames(procs[key], key[3])
      /\ procs[key].log[k].arg \notin DesiredNames(key)

\* a delete has been issued by a reconciliation that has a desired object
\* and whose managed group held a desired and a former member
C35_Witness ==
  \E key \in ProcKeys :
    /\ Deletes(key) # {}
    /\ DesiredNames(key) # {}
    /\ ExistingNames(procs[key], key[3]) \cap DesiredNames(key) # {}


\* the names of the address objects in the snapshot of a reconciliation
SnapshotNames(p) == {p.addresses[1][k].name : k \in DOMAIN p.addresses[1]}

\* the names whose create was accepted before the k-th call
CreatedBefore(p, k) ==
  {p.log[j].arg : j \in {j \in 1..(k - 1) : p.log[j].op = "addAddress" /\ p.log[j].res = "ok"}}

\* C36: every member of the payload of a group create or a group update is
\* the name of an address object of the snapshot or of an object whose
\* create was accepted earlier in the same reconciliation.
C36_MembersExist ==
  \A key \in ProcKeys :
    LET p == procs[key] IN
    \A k \in DOMAIN p.log :
      p.log[k].op \in GroupCalls =>
        Range(p.log[k].arg.member) \subseteq SnapshotNames(p) \cup CreatedBefore(p, k)

----------------------------------------------------------------------------
(* Properties of an integrator without prefixes, under Spec                 *)

\* the step is the answer to run i's prefix fetch, with a result
PrefixesAnswered(i) ==
  /\ Active(i) /\ inv[i].pc = "prefixes" /\ inv'[i] # inv[i]
  /\ reply' = [act |-> "getPrefixes", who |-> Who(i), out |-> "ok"]

\* the step is the answer to run i's lookup of the security group, found
GroupFound(i) ==
  /\ Active(i) /\ inv[i].pc = "getGroup" /\ inv'[i] # inv[i]
  /\ reply' = [act |-> "getGroup", who |-> Who(i), out |-> "ok"]

\* the firewall endpoints of an integrator that are enabled and declare a scope
Deployable(integrator) ==
  {k \in DOMAIN integrator.fortigate_endpoints :
     /\ integrator.fortigate_endpoints[k].endpoint.enabled
     /\ Len(integrator.fortigate_endpoints[k].vdoms) > 0}

\* C37: a prefix fetch answered with no prefix is followed by the integrator's
\* firewall reconciliations, with an empty desired list, or else by the lookup
\* of its security group, with a desired group that has no expression; a
\* reconciliation with an empty desired list that found its managed group
\* with members issues the group update as its first call after the snapshot,
\* with no member, and then only reference-count fetches and deletes for the
\* former members; a security group found holding values is then patched
\* with the desired group that has no expression and the configured tags.
C37_EmptyIsReconciled ==
  /\ [][\A i \in Calls :
          (PrefixesAnswered(i) /\ netbox[Integrator(Bundle, i).query] = <<>>) =>
            LET integrator == Integrator(Bundle, i) IN
            IF WantsFirewall(integrator) /\ Deployable(integrator) # {}
            THEN /\ inv'[i].st = "active" /\ inv'[i].idx = inv[i].idx
                 /\ inv'[i].pc = "deploy" /\ inv'[i].fwIdx = Min(Deployable(integrator))
                 /\ \E key \in ProcKeys : key[1] = i /\ procs'[key].pc = "getGroups"
                 /\ \A key \in ProcKeys :
                      (key[1] = i /\ procs'[key].pc = "getGroups") => procs'[key].prefixes = <<>>
            ELSE (WantsNsx(integrator) /\ Len(integrator.nsx_endpoints[1]) > 0) =>
                 /\ inv'[i].st = "active" /\ inv'[i].idx = inv[i].idx
                 /\ inv'[i].pc = "getGroup"
                 /\ inv'[i].securityGroup[1].expression = None]_vars
  /\ [](\A key \in ProcKeys :
          LET p == procs[key] IN
          (/\ IsSome(p.groups) /\ IsSome(p.addresses) /\ p.prefixes = <<>>
           /\ Managed(p, key[3]) /\ ExistingNames(p, key[3]) # {}) =>
            /\ Len(p.log) >= 3
            /\ p.log[3].op = "updateAddressGroup" /\ p.log[3].arg.member = <<>>
            /\ Range(p.removed) = ExistingNames(p, key[3])
            /\ \A k \in 4..Len(p.log) :
                 /\ p.log[k].op \in {"getAddress", "deleteAddress"}
                 /\ p.log[k].arg \in ExistingNames(p, key[3]))
  /\ [][\A i \in Calls :
          (/\ GroupFound(i) /\ inv[i].netboxPrefixes = <<>>
           /\ Observed(nsxmgr[NsxHost(i)][1]) # {}) =>
            /\ inv'[i].pc = "patchGroup" /\ inv'[i].nsxIdx = inv[i].nsxIdx
            /\ inv'[i].securityGroup =
                 Some(createSecurityGroup(Integrator(Bundle, i), <<>>))
            /\ inv'[i].securityGroup[1].expression = None]_vars

\* the IPAM has no prefix for the integrator, the managed group had members:
\* the update without members is answered and the reference count of a
\* former member is being fetched
C37_Witness ==
  \E key \in ProcKeys :
    LET p == procs[key] IN
    /\ Active(key[1]) /\ inv[key[1]].pc = "deploy" /\ inv[key[1]].netboxPrefixes = <<>>
    /\ netbox[Integrator(Bundle, key[1]).query] = <<>>
    /\ p.pc = "getAddress" /\ Len(p.log) = 4
    /\ p.log[3].op = "updateAddressGroup" /\ p.log[3].arg.member = <<>>
    /\ p.log[4].arg \in ExistingNames(p, key[3])

----------------------------------------------------------------------------
(* Properties of the endpoints of an integrator, under Spec                 *)

\* the firewall endpoint whose scopes run i is reconciling
FirewallEndpoint(i) == Integrator(Bundle, i).fortigate_endpoints[inv[i].fwIdx]

\* the security-platform endpoint run i is calling
SecurityEndpoint(i) == Integrator(Bundle, i).nsx_endpoints[1][inv[i].nsxIdx]

\* the firewall endpoint a run is reconciling is enabled and declares a
\* scope
FirewallEndpointEnabled ==
  \A i \in Calls :
    (Active(i) /\ inv[i].pc = "deploy") =>
      (FirewallEndpoint(i).endpoint.enabled /\ Len(FirewallEndpoint(i).vdoms) > 0)

\* the security-platform endpoint a run is calling is enabled
SecurityEndpointEnabled ==
  \A i \in Calls :
    (Active(i) /\ inv[i].pc \in {"getGroup", "patchGroup"}) => SecurityEndpoint(i).enabled

\* C38: a run waits for the answer to a call only of a target endpoint that
\* is enabled, firewall or security platform, and whose firewall declares a
\* scope.
C38_DisabledEndpointUntouched == FirewallEndpointEnabled /\ SecurityEndpointEnabled

----------------------------------------------------------------------------
(* Termination of a run, under LiveSpec                                    *)

\* every directory lookup is answered
LookupsAnswered ==
  \A i \in Calls :
    (Active(i) /\ inv[i].pc = "getIntegrators") ~> ~(Active(i) /\ inv[i].pc = "getIntegrators")

\* a run that has been accepted eventually returns or raises, with the
\* running flag false at that moment; the running flag is false again and
\* again
RunsEnd ==
  /\ \A i \in Calls :
       Active(i) ~> (inv[i].st \in {"ret0", "raised"} /\ ~worker.running)
  /\ worker.running ~> ~worker.running

\* a process in continuous mode goes on: its interval is there for a later
\* run
IntervalGoesOn == [](main.cron => main.pc # "exited")

\* C39: when every collaborator call is answered, a run that has been
\* accepted eventually returns or raises with the running flag false, the
\* flag is false again and again, and a process in continuous mode keeps its
\* interval, whose later ticks start the later runs.
C39_RunEndsAndNextCanStart == LookupsAnswered => (RunsEnd /\ IntervalGoesOn)

\* the same without the interval: when every collaborator call is answered,
\* every accepted run ends and the flag is released
RunsEndWhenAnswered == LookupsAnswered => RunsEnd

----------------------------------------------------------------------------
(* Properties of getAddGrpMemberChanges as a patch, under UtilSpec          *)

\* C40: for two defined groups, no name is both in the added and in the
\* removed list of the diff, and the member names of the existing group
\* without the removed names and with the added names are the member names
\* of the desired group.
C40_DiffIsAPatch ==
  (Diffed /\ BothDefined) =>
    /\ IsSome(util.updates)
    /\ Range(util.updates[1].added) \cap Range(util.updates[1].removed) = {}
    /\ (NamesOf(util.existingGroup) \ Range(util.updates[1].removed))
         \cup Range(util.updates[1].added) = NamesOf(util.newGroup)

\* a diff of two groups that share a member, with a name added and a name
\* removed
C40_Witness ==
  /\ Diffed /\ BothDefined
  /\ NamesOf(util.existingGroup) \cap NamesOf(util.newGroup) # {}
  /\ util.updates[1].added # <<>> /\ util.updates[1].removed # <<>>

====
